---- MODULE Spec2Model ----
(***************************************************************************)
(* cast-interop: relay / watch state machines, the bundle ABI codec and    *)
(* the revert decoder, modelled from src/src.                              *)
(*                                                                         *)
(* Bytes are integers 0..255, byte strings are sequences of bytes, Rust    *)
(* Strings are sequences of one-character strings.  Result<T> values are   *)
(* records [ok |-> BOOLEAN, val |-> T, err |-> error text].                *)
(***************************************************************************)
EXTENDS Integers, Sequences, FiniteSets, TLC

(***************************************************************************)
(* Bounds of the model                                                     *)
(***************************************************************************)
MaxTimeout == 2
MaxLatency == 1
MaxBlock == 1
MaxCalls == 2
PollCap == 2

(***************************************************************************)
(* Generic helpers                                                         *)
(***************************************************************************)
Min(a, b) == IF a <= b THEN a ELSE b

Ok(v) == [ok |-> TRUE, val |-> v, err |-> ""]

Err(e) == [ok |-> FALSE, val |-> <<>>, err |-> e]

Zeros(n) == [i \in 1..n |-> 0]

RECURSIVE Concat(_)
Concat(seqs) == IF seqs = <<>> THEN <<>> ELSE Head(seqs) \o Concat(Tail(seqs))

(***************************************************************************)
(* hex::encode / hex::decode and the string forms of addresses and hashes  *)
(***************************************************************************)
HexChars == <<"0", "1", "2", "3", "4", "5", "6", "7",
              "8", "9", "a", "b", "c", "d", "e", "f">>

UpperHexChars == <<"0", "1", "2", "3", "4", "5", "6", "7",
                   "8", "9", "A", "B", "C", "D", "E", "F">>

\* hex::encode: two lower-case digits per byte
HexEncode(bs) ==
    [i \in 1..(2 * Len(bs)) |->
        IF i % 2 = 1 THEN HexChars[(bs[(i + 1) \div 2] \div 16) + 1]
                     ELSE HexChars[(bs[i \div 2] % 16) + 1]]

HexDigitSet == {HexChars[i] : i \in 1..16} \cup {UpperHexChars[i] : i \in 1..16}

HexDigitValue ==
    [c \in HexDigitSet |->
        IF \E i \in 1..16 : HexChars[i] = c
        THEN (CHOOSE i \in 1..16 : HexChars[i] = c) - 1
        ELSE (CHOOSE i \in 1..16 : UpperHexChars[i] = c) - 1]

\* value of one hex digit (either case), -1 for any other character
HexVal(c) == IF c \in HexDigitSet THEN HexDigitValue[c] ELSE -1

\* hex::decode: fails on an odd length or on a character that is no hex digit
HexDecode(cs) ==
    IF Len(cs) % 2 = 1 \/ \E i \in 1..Len(cs) : cs[i] \notin HexDigitSet
    THEN Err("invalid hex")
    ELSE Ok([i \in 1..(Len(cs) \div 2) |->
                16 * HexDigitValue[cs[2 * i - 1]] + HexDigitValue[cs[2 * i]]])

HasPrefix0x(s) == Len(s) >= 2 /\ s[1] = "0" /\ s[2] = "x"

\* str::strip_prefix("0x").unwrap_or(s)
StripPrefix0x(s) == IF HasPrefix0x(s) THEN SubSeq(s, 3, Len(s)) ELSE s

\* str::trim_start_matches("0x"): strips the prefix as often as it occurs
RECURSIVE TrimStart0x(_)
TrimStart0x(s) == IF HasPrefix0x(s) THEN TrimStart0x(SubSeq(s, 3, Len(s))) ELSE s

\* format_hex / format!("{value:#x}") of a byte string, address or hash
format_hex(bs) == <<"0", "x">> \o HexEncode(bs)

\* FixedBytes<N>::from_str: optional 0x prefix, exactly n bytes of hex
FixedFromStr(s, n) ==
    LET d == HexDecode(StripPrefix0x(s))
    IN  IF d.ok /\ Len(d.val) = n THEN d ELSE Err("invalid string length")

AddressFromStr(s) == FixedFromStr(s, 20)

B256FromStr(s) == FixedFromStr(s, 32)

\* an address / a 32-byte value whose last byte is n, the other bytes zero
Addr(n) == Zeros(19) \o <<n>>

B256(n) == Zeros(31) \o <<n>>

DecChars == <<"0", "1", "2", "3", "4", "5", "6", "7", "8", "9">>

\* u64::to_string
RECURSIVE ToDecimal(_)
ToDecimal(n) ==
    IF n < 10 THEN <<DecChars[n + 1]>>
    ELSE ToDecimal(n \div 10) \o <<DecChars[(n % 10) + 1]>>

DecVal(c) ==
    IF \E i \in 1..10 : DecChars[i] = c
    THEN (CHOOSE i \in 1..10 : DecChars[i] = c) - 1
    ELSE -1

RECURSIVE DecimalValue(_)
DecimalValue(s) ==
    IF s = <<>> THEN 0
    ELSE 10 * DecimalValue(SubSeq(s, 1, Len(s) - 1)) + DecVal(s[Len(s)])

\* U256::from_str on a decimal string
U256FromStr(s) ==
    IF s = <<>> \/ \E i \in 1..Len(s) : DecVal(s[i]) < 0
    THEN Err("invalid digit")
    ELSE Ok(DecimalValue(s))

(***************************************************************************)
(* ABI codec of the sol! structs InteropCall, BundleAttributes,            *)
(* InteropBundle and InteropBundleSent (head/tail layout, 32-byte words)   *)
(***************************************************************************)
\* uint256 word, big-endian (values of the model stay below 2^24)
Word(n) ==
    [i \in 1..32 |->
        IF i = 32 THEN n % 256
        ELSE IF i = 31 THEN (n \div 256) % 256
        ELSE IF i = 30 THEN (n \div 65536) % 256
        ELSE 0]

\* value of a uint256 word, -1 when it does not fit the model's integers
WordToNat(w) ==
    IF \E i \in 1..29 : w[i] # 0 THEN -1
    ELSE 65536 * w[30] + 256 * w[31] + w[32]

\* dynamic `bytes`: length word, then the data right-padded to a word boundary
EncBytes(bs) == Word(Len(bs)) \o bs \o Zeros(((Len(bs) + 31) \div 32) * 32 - Len(bs))

EncBytes1(v) == <<v>> \o Zeros(31)

EncBool(b) == Word(IF b THEN 1 ELSE 0)

EncAddress(a) == Zeros(12) \o a

\* InteropCall: (bytes1, bool, address, address, uint256, bytes)
EncCall(c) ==
    EncBytes1(c.version) \o EncBool(c.shadowAccount) \o EncAddress(c.to)
        \o EncAddress(c.from) \o Word(c.value) \o Word(192) \o EncBytes(c.data)

\* BundleAttributes: (bytes, bytes)
EncAttrs(a) ==
    Word(64) \o Word(64 + Len(EncBytes(a.executionAddress)))
        \o EncBytes(a.executionAddress) \o EncBytes(a.unbundlerAddress)

RECURSIVE SumLen(_)
SumLen(seqs) == IF seqs = <<>> THEN 0 ELSE Len(Head(seqs)) + SumLen(Tail(seqs))

\* InteropCall[]: length, one offset per element, the elements in order
EncCalls(cs) ==
    LET encs == [i \in 1..Len(cs) |-> EncCall(cs[i])]
        offs == [i \in 1..Len(cs) |->
                    Word(32 * Len(cs) + SumLen(SubSeq(encs, 1, i - 1)))]
    IN  Word(Len(cs)) \o Concat(offs) \o Concat(encs)

\* InteropBundle: (bytes1, uint256, uint256, bytes32, InteropCall[], BundleAttributes)
EncBundleTuple(b) ==
    LET calls == EncCalls(b.calls)
    IN  EncBytes1(b.version) \o Word(b.sourceChainId) \o Word(b.destinationChainId)
            \o b.interopBundleSalt \o Word(192) \o Word(192 + Len(calls))
            \o calls \o EncAttrs(b.bundleAttributes)

\* encode_interop_bundle: bundle.abi_encode(), the struct as one dynamic value
encode_interop_bundle(b) == Word(32) \o EncBundleTuple(b)

\* the data of an InteropBundleSent log as the source contract emits it
EncBundleSent(l2l1MsgHash, interopBundleHash, b) ==
    l2l1MsgHash \o interopBundleHash \o Word(96) \o EncBundleTuple(b)

InBounds(data, off, n) == off >= 0 /\ n >= 0 /\ off + n <= Len(data)

WordAt(data, off) == SubSeq(data, off + 1, off + 32)

NatAt(data, off) == IF InBounds(data, off, 32) THEN WordToNat(WordAt(data, off)) ELSE -1

DecBytes(data, off) ==
    LET n == NatAt(data, off)
    IN  IF n >= 0 /\ InBounds(data, off + 32, n)
        THEN Ok(SubSeq(data, off + 33, off + 32 + n))
        ELSE Err("abi: buffer overrun")

\* a variant that reads the `to` and `from` words in the other order
DecCallSwapped(data, off) ==
    IF ~InBounds(data, off, 192) \/ NatAt(data, off + 128) < 0 \/ NatAt(data, off + 160) < 0
    THEN Err("abi: buffer overrun")
    ELSE LET d == DecBytes(data, off + NatAt(data, off + 160))
         IN  IF ~d.ok THEN d
             ELSE Ok([version |-> data[off + 1],
                      shadowAccount |-> WordAt(data, off + 32) # Zeros(32),
                      to |-> SubSeq(data, off + 96 + 13, off + 128),
                      from |-> SubSeq(data, off + 64 + 13, off + 96),
                      value |-> NatAt(data, off + 128),
                      data |-> d.val])

DecCall(data, off) ==
    IF ~InBounds(data, off, 192) \/ NatAt(data, off + 128) < 0 \/ NatAt(data, off + 160) < 0
    THEN Err("abi: buffer overrun")
    ELSE LET d == DecBytes(data, off + NatAt(data, off + 160))
         IN  IF ~d.ok THEN d
             ELSE Ok([version |-> data[off + 1],
                      shadowAccount |-> WordAt(data, off + 32) # Zeros(32),
                      to |-> SubSeq(data, off + 64 + 13, off + 96),
                      from |-> SubSeq(data, off + 96 + 13, off + 128),
                      value |-> NatAt(data, off + 128),
                      data |-> d.val])

DecCalls(data, off) ==
    LET n == NatAt(data, off)
    IN  IF n < 0 \/ ~InBounds(data, off + 32, 32 * n)
        THEN Err("abi: buffer overrun")
        ELSE LET elems == [i \in 1..n |->
                              IF NatAt(data, off + 32 * i) < 0
                              THEN Err("abi: buffer overrun")
                              ELSE DecCall(data, off + 32 + NatAt(data, off + 32 * i))]
             IN  IF \E i \in 1..n : ~elems[i].ok
                 THEN Err("abi: buffer overrun")
                 ELSE Ok([i \in 1..n |-> elems[i].val])

DecAttrs(data, off) ==
    IF NatAt(data, off) < 0 \/ NatAt(data, off + 32) < 0
    THEN Err("abi: buffer overrun")
    ELSE LET e == DecBytes(data, off + NatAt(data, off))
             u == DecBytes(data, off + NatAt(data, off + 32))
         IN  IF ~e.ok \/ ~u.ok THEN Err("abi: buffer overrun")
             ELSE Ok([executionAddress |-> e.val, unbundlerAddress |-> u.val])

DecBundleTuple(data, off) ==
    IF ~InBounds(data, off, 192) \/ NatAt(data, off + 32) < 0 \/ NatAt(data, off + 64) < 0
         \/ NatAt(data, off + 128) < 0 \/ NatAt(data, off + 160) < 0
    THEN Err("abi: buffer overrun")
    ELSE LET cs == DecCalls(data, off + NatAt(data, off + 128))
             at == DecAttrs(data, off + NatAt(data, off + 160))
         IN  IF ~cs.ok \/ ~at.ok THEN Err("abi: buffer overrun")
             ELSE Ok([version |-> data[off + 1],
                      sourceChainId |-> NatAt(data, off + 32),
                      destinationChainId |-> NatAt(data, off + 64),
                      interopBundleSalt |-> WordAt(data, off + 96),
                      calls |-> cs.val,
                      bundleAttributes |-> at.val])

\* InteropBundle::abi_decode: the struct as one dynamic value
decode_interop_bundle(data) ==
    IF NatAt(data, 0) < 0 THEN Err("abi: buffer overrun")
    ELSE DecBundleTuple(data, NatAt(data, 0))

\* decode_interop_bundle_sent: (l2l1MsgHash, interopBundleHash, interopBundle)
decode_interop_bundle_sent(data) ==
    IF ~InBounds(data, 0, 96) \/ NatAt(data, 64) < 0 THEN Err("abi: buffer overrun")
    ELSE LET b == DecBundleTuple(data, NatAt(data, 64))
         IN  IF ~b.ok THEN b
             ELSE Ok([l2l1MsgHash |-> WordAt(data, 0),
                      interopBundleHash |-> WordAt(data, 32),
                      interopBundle |-> b.val])

(***************************************************************************)
(* Revert decoding                                                         *)
(***************************************************************************)
NoneV == [some |-> FALSE, v |-> <<>>]

SomeV(x) == [some |-> TRUE, v |-> x]

\* the custom errors of the sol! block, selector -> name
error_selector_map ==
    <<
       [selector |-> <<144, 49, 247, 81>>,
        name |-> <<"A", "t", "t", "r", "i", "b", "u", "t", "e", "A", "l", "r", "e", "a",
                 "d", "y", "S", "e", "t">>],
       [selector |-> <<188, 180, 30, 199>>,
        name |-> <<"A", "t", "t", "r", "i", "b", "u", "t", "e", "V", "i", "o", "l", "a",
                 "t", "e", "s", "R", "e", "s", "t", "r", "i", "c", "t", "i", "o", "n">>],
       [selector |-> <<91, 186, 81, 17>>,
        name |-> <<"B", "u", "n", "d", "l", "e", "A", "l", "r", "e", "a", "d", "y", "P",
                 "r", "o", "c", "e", "s", "s", "e", "d">>],
       [selector |-> <<164, 61, 41, 83>>,
        name |-> <<"B", "u", "n", "d", "l", "e", "V", "e", "r", "i", "f", "i", "e", "d",
                 "A", "l", "r", "e", "a", "d", "y">>],
       [selector |-> <<213, 199, 163, 118>>,
        name |-> <<"C", "a", "l", "l", "A", "l", "r", "e", "a", "d", "y", "E", "x", "e",
                 "c", "u", "t", "e", "d">>],
       [selector |-> <<192, 135, 183, 39>>,
        name |-> <<"C", "a", "l", "l", "N", "o", "t", "E", "x", "e", "c", "u", "t", "a",
                 "b", "l", "e">>],
       [selector |-> <<247, 41, 242, 109>>,
        name |-> <<"C", "a", "n", "N", "o", "t", "U", "n", "b", "u", "n", "d", "l",
                 "e">>],
       [selector |-> <<232, 69, 190, 76>>,
        name |-> <<"E", "x", "e", "c", "u", "t", "i", "n", "g", "N", "o", "t", "A", "l",
                 "l", "o", "w", "e", "d">>],
       [selector |-> <<98, 210, 20, 170>>,
        name |-> <<"I", "n", "d", "i", "r", "e", "c", "t", "C", "a", "l", "l", "V", "a",
                 "l", "u", "e", "M", "i", "s", "m", "a", "t", "c", "h">>],
       [selector |-> <<254, 139, 27, 22>>,
        name |-> <<"I", "n", "t", "e", "r", "o", "p", "e", "r", "a", "b", "l", "e", "A",
                 "d", "d", "r", "e", "s", "s", "C", "h", "a", "i", "n", "R", "e", "f",
                 "e", "r", "e", "n", "c", "e", "N", "o", "t", "E", "m", "p", "t", "y">>],
       [selector |-> <<136, 79, 73, 186>>,
        name |-> <<"I", "n", "t", "e", "r", "o", "p", "e", "r", "a", "b", "l", "e", "A",
                 "d", "d", "r", "e", "s", "s", "N", "o", "t", "E", "m", "p", "t", "y">>],
       [selector |-> <<234, 225, 146, 239>>,
        name |-> <<"I", "n", "v", "a", "l", "i", "d", "I", "n", "t", "e", "r", "o", "p",
                 "B", "u", "n", "d", "l", "e", "V", "e", "r", "s", "i", "o", "n">>],
       [selector |-> <<213, 241, 57, 115>>,
        name |-> <<"I", "n", "v", "a", "l", "i", "d", "I", "n", "t", "e", "r", "o", "p",
                 "C", "a", "l", "l", "V", "e", "r", "s", "i", "o", "n">>],
       [selector |-> <<50, 194, 225, 86>>,
        name |-> <<"M", "e", "s", "s", "a", "g", "e", "N", "o", "t", "I", "n", "c", "l",
                 "u", "d", "e", "d">>],
       [selector |-> <<137, 253, 44, 118>>,
        name |-> <<"U", "n", "a", "u", "t", "h", "o", "r", "i", "z", "e", "d", "M", "e",
                 "s", "s", "a", "g", "e", "S", "e", "n", "d", "e", "r">>],
       [selector |-> <<3, 69, 194, 129>>,
        name |-> <<"U", "n", "b", "u", "n", "d", "l", "i", "n", "g", "N", "o", "t", "A",
                 "l", "l", "o", "w", "e", "d">>],
       [selector |-> <<128, 21, 52, 233>>,
        name |-> <<"W", "r", "o", "n", "g", "C", "a", "l", "l", "S", "t", "a", "t", "u",
                 "s", "L", "e", "n", "g", "t", "h">>],
       [selector |-> <<69, 52, 233, 114>>,
        name |-> <<"W", "r", "o", "n", "g", "D", "e", "s", "t", "i", "n", "a", "t", "i",
                 "o", "n", "C", "h", "a", "i", "n", "I", "d">>],
       [selector |-> <<83, 74, 177, 178>>,
        name |-> <<"W", "r", "o", "n", "g", "S", "o", "u", "r", "c", "e", "C", "h", "a",
                 "i", "n", "I", "d">>]
    >>

Str_revert == <<"r", "e", "v", "e", "r", "t", ":", " ">>

Str_panic == <<"p", "a", "n", "i", "c", "(">>

Str_dry_run_reverted == <<"d", "r", "y", "-", "r", "u", "n", " ", "r", "e", "v", "e", "r", "t",
    "e", "d", ":", " ">>

Str_dry_run_failed == <<"d", "r", "y", "-", "r", "u", "n", " ", "f", "a", "i", "l", "e", "d",
    ":", " ">>

Str_dry_run_revert == <<"d", "r", "y", "-", "r", "u", "n", " ", "r", "e", "v", "e", "r", "t",
    ":", " ">>

Str_dry_run_success == <<"d", "r", "y", "-", "r", "u", "n", " ", "s", "u", "c", "c", "e", "s",
    "s">>

Str_submission_reverted ==
    <<"t", "r", "a", "n", "s", "a", "c", "t", "i", "o", "n", " ", "s", "u",
    "b", "m", "i", "s", "s", "i", "o", "n", " ", "r", "e", "v", "e", "r",
    "t", "e", "d", ":", " ">>

Str_submission_failed ==
    <<"t", "r", "a", "n", "s", "a", "c", "t", "i", "o", "n", " ", "s", "u",
    "b", "m", "i", "s", "s", "i", "o", "n", " ", "f", "a", "i", "l", "e",
    "d", ":", " ">>

Str_sent_tx == <<"s", "e", "n", "t", " ", "t", "x", ":", " ">>

\* str::find of a pattern: the first index (1-based) where it occurs, 0 if none
Find(s, pat) ==
    LET hits == {i \in 1..(Len(s) - Len(pat) + 1) : SubSeq(s, i, i + Len(pat) - 1) = pat}
    IN  IF hits = {} THEN 0 ELSE CHOOSE i \in hits : \A j \in hits : i <= j

Contains(s, pat) == Find(s, pat) > 0

IsSpace(c) == c \in {" ", "\n", "\t", "\r"}

\* str::trim
RECURSIVE Trim(_)
Trim(s) ==
    IF s # <<>> /\ IsSpace(s[1]) THEN Trim(Tail(s))
    ELSE IF s # <<>> /\ IsSpace(s[Len(s)]) THEN Trim(SubSeq(s, 1, Len(s) - 1))
    ELSE s

\* bundle_action::decode_hex
decode_hex(value) == HexDecode(StripPrefix0x(Trim(value)))

\* the printable ASCII the model's revert strings use
AsciiChar(b) ==
    IF b = 70 THEN "F" ELSE IF b = 111 THEN "o" ELSE IF b = 120 THEN "x"
    ELSE IF b = 48 THEN "0" ELSE IF b = 32 THEN " " ELSE "?"

\* a variant that reads the string at the head of the data, not at its offset
decode_error_string_no_offset(data) ==
    LET d == DecBytes(data, 0)
    IN  IF ~d.ok THEN d ELSE Ok([i \in 1..Len(d.val) |-> AsciiChar(d.val[i])])

\* decode_error_string: <(String,)>::abi_decode
decode_error_string(data) ==
    IF NatAt(data, 0) < 0 THEN Err("abi: buffer overrun")
    ELSE LET d == DecBytes(data, NatAt(data, 0))
         IN  IF ~d.ok THEN d
             ELSE Ok([i \in 1..Len(d.val) |-> AsciiChar(d.val[i])])

RECURSIVE StripLeadingZeros(_)
\* a byte slice without its leading zero bytes:
\* `while bytes.first() == Some(&0) { bytes.remove(0); }`
StripLeadingZeros(bytes) ==
    IF bytes # <<>> /\ Head(bytes) = 0 THEN StripLeadingZeros(Tail(bytes)) ELSE bytes

\* the big-endian value of a byte slice, -1 when it exceeds the model's integers
BeValue(bs) ==
    LET n == Len(bs)
    IN  IF \E i \in 1..(n - 3) : bs[i] # 0 THEN -1
        ELSE (IF n >= 3 THEN 65536 * bs[n - 2] ELSE 0)
                + (IF n >= 2 THEN 256 * bs[n - 1] ELSE 0)
                + (IF n >= 1 THEN bs[n] ELSE 0)

SelectorName(selector) ==
    LET hits == {i \in 1..Len(error_selector_map) :
                     error_selector_map[i].selector = selector}
    IN  IF hits = {} THEN NoneV
        ELSE SomeV(error_selector_map[CHOOSE i \in hits : TRUE].name)

\* decode_revert_reason: Option<String>, or a panic of the process
\* (U256::from_be_slice panics on a value of more than 32 bytes)
decode_revert_reason(message) ==
    LET hex_start == Find(message, <<"0", "x">>)
        from_hex == SubSeq(message, hex_start, Len(message))
        quote == Find(from_hex, <<"\"">>)
        hex_data == IF quote = 0 THEN from_hex ELSE SubSeq(from_hex, 1, quote - 1)
        data == decode_hex(hex_data)
        selector == SubSeq(data.val, 1, 4)
        rest == SubSeq(data.val, 5, Len(data.val))
        byName == SelectorName(selector)
        lookup == IF byName.some
                  THEN [panic |-> FALSE, some |-> TRUE, v |-> Str_revert \o byName.v]
                  ELSE [panic |-> FALSE, some |-> FALSE, v |-> <<>>]
    IN  IF hex_start = 0 THEN [panic |-> FALSE, some |-> FALSE, v |-> <<>>]
        ELSE IF ~data.ok THEN [panic |-> FALSE, some |-> FALSE, v |-> <<>>]
        ELSE IF Len(data.val) < 4 THEN [panic |-> FALSE, some |-> FALSE, v |-> <<>>]
        ELSE IF selector = <<8, 195, 121, 160>>
        THEN IF decode_error_string(rest).ok
             THEN [panic |-> FALSE, some |-> TRUE, v |-> decode_error_string(rest).val]
             ELSE lookup
        ELSE IF selector = <<78, 72, 123, 113>>
        THEN IF Len(StripLeadingZeros(rest)) > 32
             THEN [panic |-> TRUE, some |-> FALSE, v |-> <<>>]
             ELSE [panic |-> FALSE, some |-> TRUE,
                   v |-> Str_panic \o (IF BeValue(rest) < 0 THEN <<"?">>
                                       ELSE ToDecimal(BeValue(rest))) \o <<")">>]
        ELSE lookup

(***************************************************************************)
(* MessageInclusionProof -> MessageInclusionProofSol and the handler calls *)
(***************************************************************************)
\* proof_to_sol: every string field is parsed, tx_number_in_batch is cut to u16
proof_to_sol(proof) ==
    LET chain_id == U256FromStr(proof.chain_id)
        sender == AddressFromStr(proof.message.sender)
        data == HexDecode(TrimStart0x(proof.message.data))
        nodes == [i \in 1..Len(proof.proof) |-> B256FromStr(proof.proof[i])]
    IN  IF ~chain_id.ok THEN Err("invalid chainId")
        ELSE IF ~sender.ok THEN Err("invalid sender")
        ELSE IF ~data.ok THEN Err("invalid hex")
        ELSE IF \E i \in 1..Len(nodes) : ~nodes[i].ok THEN Err("invalid proof node")
        ELSE Ok([chainId |-> chain_id.val,
                 l1BatchNumber |-> proof.l1_batch_number,
                 l2MessageIndex |-> proof.l2_message_index,
                 message |-> [txNumberInBatch |-> proof.message.tx_number_in_batch % 65536,
                              sender |-> sender.val,
                              data |-> data.val],
                 proof |-> [i \in 1..Len(nodes) |-> nodes[i].val]])

\* encode_verify_bundle_call / encode_execute_bundle_call: the call struct that
\* is ABI-encoded as the calldata
encode_bundle_call(function, encoded_bundle_, proof_) ==
    LET sol == proof_to_sol(proof_)
    IN  IF ~sol.ok THEN sol
        ELSE Ok([function |-> function, _bundle |-> encoded_bundle_, _proof |-> sol.val])

encode_verify_bundle_call(encoded_bundle_, proof_) ==
    encode_bundle_call("verifyBundle", encoded_bundle_, proof_)

encode_execute_bundle_call(encoded_bundle_, proof_) ==
    encode_bundle_call("executeBundle", encoded_bundle_, proof_)

\* the ProofMessage.data both commands write: "0x" + hex of BUNDLE_IDENTIFIER + hex of the bundle
BUNDLE_IDENTIFIER == 1

message_data(encoded_bundle_) ==
    <<"0", "x">> \o HexEncode(<<BUNDLE_IDENTIFIER>>) \o HexEncode(encoded_bundle_)

\* a variant that lets every command through
require_signer_or_dry_run_lax(has_signer, dry_run, cmd_) == Ok(<<>>)

\* require_signer_or_dry_run
require_signer_or_dry_run(has_signer, dry_run, cmd_) ==
    IF ~has_signer /\ ~dry_run
    THEN Err(cmd_ \o " requires a signer or --dry-run")
    ELSE Ok(<<>>)

(***************************************************************************)
(* encode.rs: the ERC-7930 (EVM v1) interoperable address codec.  A U256 is *)
(* its limbs, least significant first, as ruint keeps it; a limb is 16 bits *)
(* wide here, so there are 16 of them                                      *)
(***************************************************************************)
EVM_V1_HEADER == <<0, 1, 0, 0>>

EVM_V1_ADDRESS_ONLY_HEADER == <<0, 1, 0, 0, 0>>

U256_ZERO == [k \in 1..16 |-> 0]

\* U256::from of a small integer
U256From(n) == [k \in 1..16 |-> IF k = 1 THEN n % 65536
                                ELSE IF k = 2 THEN n \div 65536 ELSE 0]

\* to_be_bytes::<32>: the limbs from the most significant down, each high byte first
to_be_bytes(x) ==
    [i \in 1..32 |-> LET limb == x[16 - ((i - 1) \div 2)]
                     IN  IF i % 2 = 1 THEN limb \div 256 ELSE limb % 256]

\* a variant that reads the slice least significant byte first
from_le_slice(bytes) ==
    LET sig == StripLeadingZeros(bytes)
        padded == sig \o Zeros(32 - Len(sig))
    IN  IF Len(sig) > 32 THEN [panic |-> TRUE, val |-> U256_ZERO]
        ELSE [panic |-> FALSE,
              val |-> [k \in 1..16 |-> padded[2 * k] * 256 + padded[2 * k - 1]]]

\* U256::from_be_slice: leading zero bytes are ignored, a value of more than 32
\* bytes panics ("Value too large for Uint")
from_be_slice(bytes) ==
    LET sig == StripLeadingZeros(bytes)
        padded == Zeros(32 - Len(sig)) \o sig
    IN  IF Len(sig) > 32 THEN [panic |-> TRUE, val |-> U256_ZERO]
        ELSE [panic |-> FALSE,
              val |-> [k \in 1..16 |-> padded[33 - 2 * k] * 256 + padded[34 - 2 * k]]]

\* a variant that writes all 32 bytes of the chain id
to_chain_reference_unstripped(chain_id) == to_be_bytes(chain_id)

to_chain_reference(chain_id) ==
    IF chain_id = U256_ZERO THEN <<0>>
    ELSE LET bytes == StripLeadingZeros(to_be_bytes(chain_id))
         IN  IF bytes = <<>> THEN <<0>> ELSE bytes

\* `chain_ref.len() as u8`
AsU8(n) == n % 256

encode_evm_v1_with_address(chain_id, address) ==
    LET chain_ref == to_chain_reference(chain_id)
    IN  EVM_V1_HEADER \o <<AsU8(Len(chain_ref))>> \o chain_ref \o <<20>> \o address

encode_evm_v1_chain_only(chain_id) ==
    LET chain_ref == to_chain_reference(chain_id)
    IN  EVM_V1_HEADER \o <<AsU8(Len(chain_ref))>> \o chain_ref \o <<0>>

encode_evm_v1_address_only(address) == EVM_V1_ADDRESS_ONLY_HEADER \o <<20>> \o address

\* decode_evm_v1_address: Result<(U256, Option<Address>)>, or a panic
decode_evm_v1_address(bytes) ==
    LET chain_len == bytes[5]
        chain_start == 5
        chain_end == chain_start + chain_len
        chain_ref == SubSeq(bytes, chain_start + 1, chain_end)
        addr_len == bytes[chain_end + 1]
        addr_start == chain_end + 1
        addr_end == addr_start + addr_len
        chain_id == IF chain_len = 0 THEN [panic |-> FALSE, val |-> U256_ZERO]
                    ELSE from_be_slice(chain_ref)
        failed(e) == [panic |-> FALSE, ok |-> FALSE, val |-> <<>>, err |-> e]
    IN  IF Len(bytes) < 6 THEN failed("erc-7930 data too short")
        ELSE IF SubSeq(bytes, 1, 4) # EVM_V1_HEADER THEN failed("unsupported ERC-7930 header")
        ELSE IF Len(bytes) < chain_end + 1
        THEN failed("erc-7930 data missing address length")
        ELSE IF Len(bytes) < addr_end THEN failed("erc-7930 data truncated")
        ELSE IF chain_id.panic
        THEN [panic |-> TRUE, ok |-> FALSE, val |-> <<>>, err |-> ""]
        ELSE IF addr_len = 0
        THEN [panic |-> FALSE, ok |-> TRUE, err |-> "",
              val |-> [chain_id |-> chain_id.val, address |-> NoneV]]
        ELSE IF addr_len = 20
        THEN [panic |-> FALSE, ok |-> TRUE, err |-> "",
              val |-> [chain_id |-> chain_id.val,
                       address |-> SomeV(SubSeq(bytes, addr_start + 1, addr_end))]]
        ELSE failed("unsupported address length " \o ToString(addr_len))

(***************************************************************************)
(* State                                                                   *)
(***************************************************************************)
VARIABLES
    cmd,            \* the subcommand cli.rs dispatched
    args,           \* its arguments, the signer, the receipt of --tx, and what the
                    \* chains hold: the bundle emitted, the handler's status answers
    status_stream,  \* watch: the answers bundleStatus is still to give
    pc,             \* position of the command's async fn
    elapsed,        \* start.elapsed() of the running wait loop, in poll intervals;
                    \* 0 outside a loop, and kept when the loop ends by its deadline
    finalized,      \* watch: finalized flag
    log_proof,      \* Option<LogProof>
    source_chain_id,\* the chain id the source RPC reported
    root_available, \* watch: root_available flag
    bundle_status,  \* watch: Option<u8>, the last status observed
    bundle,         \* Option<InteropBundle> decoded from the receipt
    encoded_bundle, \* the bundle bytes passed to the handler
    proof,          \* Option<MessageInclusionProof>
    handler_calls,  \* eth_call simulations and transactions sent to the handler
    handler_receipt,\* Option: the receipt of the handler transaction
    stdout,         \* lines and events printed
    result,         \* the command's Result<()>
    polls,          \* polls issued per wait stage, counted up to PollCap
    sleeps,         \* sleeps taken per wait stage, counted up to PollCap - 1
    stage_log,      \* the stages completed, in completion order
    last_rpc,       \* the last RPC exchange
    bundle_hash,    \* relay, watch: Option<B256>, the bundle hash of the receipt's event
    evm_bytes,      \* the Bytes an ERC-7930 encoder returned
    evm_decoded     \* Option: what decode_evm_v1_address returned

vars == <<cmd, args, status_stream, pc, elapsed, finalized, log_proof, source_chain_id, root_available, bundle_status,
          bundle, encoded_bundle, proof, handler_calls, handler_receipt, stdout,
          result, polls, sleeps, stage_log, last_rpc, bundle_hash, evm_bytes, evm_decoded>>

Stages == {"finalized", "proof", "root", "status"}

\* elapsed time saturates above every timeout of the model
ClockCap == MaxTimeout + 1

Tick(d) == Min(elapsed + d, ClockCap)

Running == [status |-> "running", msg |-> "", detail |-> <<>>]

Success == [status |-> "ok", msg |-> "", detail |-> <<>>]

Failure(msg, detail) == [status |-> "err", msg |-> msg, detail |-> detail]

NoRpc == [method |-> "", stage |-> "", params |-> <<>>, resp |-> Err("")]

(***************************************************************************)
(* Inputs                                                                  *)
(***************************************************************************)
\* DEFAULT_INTEROP_CENTER, 0x...010010
DEFAULT_INTEROP_CENTER == Zeros(17) \o <<1, 0, 16>>

\* an ERC-7930 address (chain 1, a 20-byte address) as it appears in bundle attributes
InteropAddr == <<0, 1, 0, 0, 1, 1, 20>> \o Addr(9)

SeqsUpTo(S, n) == UNION {[1..k -> S] : k \in 0..n}

Bundles ==
    LET
        CallSamples ==
            {[version |-> 1, shadowAccount |-> sh, to |-> Addr(1), from |-> Addr(2),
              value |-> IF sh THEN 70000 ELSE 0, data |-> d] :
                sh \in BOOLEAN, d \in {<<>>, <<171>>, [i \in 1..33 |-> i]}}
    IN
        {[version |-> 1, sourceChainId |-> src, destinationChainId |-> 1,
          interopBundleSalt |-> B256(salt), calls |-> cs,
          bundleAttributes |-> [executionAddress |-> e, unbundlerAddress |-> InteropAddr]] :
            src \in {0, 324}, salt \in {0, 7}, cs \in SeqsUpTo(CallSamples, MaxCalls),
            e \in {<<>>, InteropAddr}}

Receipts ==
    LET
        \* the bundles behind the receipts of the relay runs
        RelayBundles ==
            {b \in Bundles : /\ b.sourceChainId = 324 /\ b.interopBundleSalt = B256(7)
                             /\ b.bundleAttributes.executionAddress = <<>>
                             /\ Len(b.calls) = 1
                             /\ b.calls[1].shadowAccount /\ b.calls[1].data = <<171>>}
        \* the data of the InteropBundleSent log of a receipt: absent, truncated, or as emitted
        EventDatas ==
            {NoneV, SomeV(Zeros(64))}
                \cup {SomeV(EncBundleSent(B256(1), B256(2), b)) : b \in RelayBundles}
    IN
        {[block_number |-> n, transaction_index |-> 3, event_data |-> e] :
            n \in {0, MaxBlock}, e \in EventDatas \ {NoneV, SomeV(Zeros(64))}}
        \cup {[block_number |-> 0, transaction_index |-> 3, event_data |-> e] :
                e \in {NoneV, SomeV(Zeros(64))}}

Str_abc == <<"a", "b", "c">>

\* proof.json files handed to bundle verify / bundle execute
ProofFiles ==
    {[chain_id |-> c, l1_batch_number |-> 9, l2_message_index |-> 4,
      root |-> format_hex(B256(5)),
      message |-> [tx_number_in_batch |-> td[1], sender |-> sn, data |-> td[2]],
      proof |-> pr] :
        c \in {<<"3", "2", "4">>, Str_abc},
        td \in {<<3, <<"0", "x">> >>, <<65539, <<"0", "x", "f", "f">> >>},
        sn \in {format_hex(DEFAULT_INTEROP_CENTER), format_hex(Addr(99)), Str_abc},
        pr \in {<<format_hex(B256(11)), format_hex(B256(12))>>, <<Str_abc>>}}

BaseArgs ==
    LET
        NoProofFile ==
            [chain_id |-> <<>>, l1_batch_number |-> 0, l2_message_index |-> 0, root |-> <<>>,
             message |-> [tx_number_in_batch |-> 0, sender |-> <<>>, data |-> <<>>],
             proof |-> <<>>]
    IN
        [dry_run |-> FALSE, has_signer |-> FALSE, mode |-> "execute", timeout |-> 0,
         out_dir |-> FALSE, center |-> DEFAULT_INTEROP_CENTER,
         receipt |-> [block_number |-> 0, transaction_index |-> 0, event_data |-> NoneV],
         bundle |-> <<>>, proof |-> NoProofFile, expected_root |-> <<>>, batch |-> 0,
         source_chain |-> 0, until |-> [some |-> FALSE, v |-> ""],
         emitted |-> NoneV, handler_stream |-> <<>>]

\* RPC answers
RpcError == Err("rpc request failed")

FinalizedResponses == {RpcError} \cup {Ok(n) : n \in 0..MaxBlock}

LogProofResponses ==
    LET
        \* log proofs as zks_getL2ToL1LogProof returns them; the root is a hex string
        LogProofs ==
            {[id |-> 4, proof |-> <<format_hex(B256(11)), format_hex(B256(12))>>,
              root |-> r, batch_number |-> 9] :
                r \in {format_hex(B256(5)), <<"0", "x", "5">>}}
    IN  {RpcError, Ok(NoneV)} \cup {Ok(SomeV(p)) : p \in LogProofs}

ChainIdResponses == {RpcError, Ok(324), Ok(270)}

\* interopRoots answers: zero, the root of the proofs, another root
RootResponses == {RpcError} \cup {Ok(B256(r)) : r \in {0, 5, 6}}

\* the transport error of a reverted handler call
RevertMessage(payload) ==
    <<"d", "a", "t", "a", ":", " ", "\"">> \o format_hex(payload) \o <<"\"">>

\* BundleVerifiedAlready(bytes32), CallAlreadyExecuted(bytes32,uint256), an
\* unregistered selector, a failure that carries no revert data, Error("Foo"),
\* Panic(1) and Panic(17), revert data of 3 bytes, Error with a string cut short,
\* Panic with one byte and Panic with 33 bytes
ErrorMessages ==
    {RevertMessage(<<164, 61, 41, 83>> \o B256(2)),
     RevertMessage(<<213, 199, 163, 118>> \o B256(2) \o Word(0)),
     RevertMessage(<<222, 173, 190, 239>>),
     <<"r", "e", "f", "u", "s", "e", "d">>,
     RevertMessage(<<8, 195, 121, 160>> \o Word(32) \o EncBytes(<<70, 111, 111>>)),
     RevertMessage(<<78, 72, 123, 113>> \o Word(1)),
     RevertMessage(<<78, 72, 123, 113>> \o Word(17)),
     RevertMessage(<<8, 195, 121>>),
     RevertMessage(<<8, 195, 121, 160>> \o Word(32) \o Word(3)),
     RevertMessage(<<78, 72, 123, 113, 1>>),
     RevertMessage(<<78, 72, 123, 113>> \o [i \in 1..33 |-> 255])}

CallResponses == {[ok |-> TRUE, err |-> <<>>]} \cup {[ok |-> FALSE, err |-> m] : m \in ErrorMessages}

(***************************************************************************)
(* Initial states                                                          *)
(***************************************************************************)
InitCommon ==
    /\ pc = "start"
    /\ elapsed = 0
    /\ finalized = FALSE
    /\ log_proof = NoneV
    /\ source_chain_id = 0
    /\ root_available = FALSE
    /\ bundle_status = NoneV
    /\ bundle = NoneV
    /\ encoded_bundle = <<>>
    /\ proof = NoneV
    /\ handler_calls = <<>>
    /\ handler_receipt = NoneV
    /\ stdout = <<>>
    /\ result = Running
    /\ polls = [s \in Stages |-> 0]
    /\ sleeps = [s \in Stages |-> 0]
    /\ stage_log = <<>>
    /\ last_rpc = NoRpc
    /\ bundle_hash = NoneV
    /\ evm_bytes = <<>>
    /\ evm_decoded = NoneV

\* --mode with --out-dir: verify, execute with artifacts, an invalid mode
RelayArgs ==
    {[BaseArgs EXCEPT !.dry_run = d, !.has_signer = k, !.mode = m[1], !.timeout = t,
                      !.out_dir = m[2], !.receipt = r] :
        d \in BOOLEAN, k \in BOOLEAN,
        m \in {<<"verify", FALSE>>, <<"execute", TRUE>>, <<"other", FALSE>>},
        t \in 0..MaxTimeout, r \in Receipts}

\* --bundle arguments: hex with and without prefix, and a string that is no hex
BundleActionArgs ==
    {[BaseArgs EXCEPT !.dry_run = d, !.has_signer = k, !.center = c, !.bundle = b,
                      !.proof = p] :
        d \in BOOLEAN, k \in BOOLEAN, c \in {DEFAULT_INTEROP_CENTER, Addr(171)},
        b \in {<<"0", "x", "d", "e", "a", "d">>, <<"b", "e", "e", "f">>, <<"0", "x", "z">>},
        p \in ProofFiles}

RootWaitArgs ==
    {[BaseArgs EXCEPT !.timeout = t, !.expected_root = r, !.batch = 9,
                      !.source_chain = 324] :
        t \in 0..MaxTimeout, r \in {format_hex(B256(5)), <<"0", "x", "5">>}}

Init ==
    /\ InitCommon
    /\ status_stream = <<>>
    /\ \/ cmd = "relay" /\ args \in RelayArgs
       \/ cmd \in {"bundle verify", "bundle execute"} /\ args \in BundleActionArgs
       \/ cmd = "debug root" /\ args \in RootWaitArgs

(***************************************************************************)
(* Steps shared by the commands                                            *)
(***************************************************************************)
Fail(msg, detail) ==
    /\ pc' = "failed"
    /\ result' = Failure(msg, detail)

Println(line, detail) == stdout' = Append(stdout, [line |-> line, detail |-> detail])

Polled(stage, method, params, resp) ==
    /\ polls' = [polls EXCEPT ![stage] = Min(@ + 1, PollCap)]
    /\ last_rpc' = [method |-> method, stage |-> stage, params |-> params, resp |-> resp]

\* a variant of the loop tail that has no deadline test
TimeoutOrSleepNoDeadline(t, timeout_msg, sleep_pc) == pc' = sleep_pc /\ result' = result

\* the tail of every wait loop: deadline check after an unsuccessful poll, then sleep
TimeoutOrSleep(t, timeout_msg, sleep_pc) ==
    IF t > args.timeout
    THEN Fail(timeout_msg, <<>>)
    ELSE pc' = sleep_pc /\ result' = result

\* a variant in which the relay, after any sleep, starts over at the finalization wait
SleepRestart ==
    /\ pc \in {"sleep_finalized", "sleep_proof", "sleep_root", "sleep_root_wait"}
    /\ LET stage == CASE pc = "sleep_finalized" -> "finalized"
                      [] pc = "sleep_proof" -> "proof"
                      [] OTHER -> "root"
       IN  sleeps' = [sleeps EXCEPT ![stage] = Min(@ + 1, PollCap - 1)]
    /\ elapsed' = Tick(1)
    /\ pc' = (IF pc = "sleep_root_wait" THEN "root_wait" ELSE "wait_finalized")
    /\ UNCHANGED <<evm_bytes, evm_decoded, bundle_hash, cmd, args, status_stream,
                   source_chain_id, finalized, log_proof, root_available, bundle_status,
                   bundle, encoded_bundle, proof, handler_calls, handler_receipt, stdout,
                   result, polls, stage_log, last_rpc>>

\* a variant that tests the deadline when the sleep is over, before the next poll
SleepThenDeadline ==
    /\ pc \in {"sleep_finalized", "sleep_proof", "sleep_root", "sleep_root_wait"}
    /\ LET stage == CASE pc = "sleep_finalized" -> "finalized"
                      [] pc = "sleep_proof" -> "proof"
                      [] OTHER -> "root"
       IN  sleeps' = [sleeps EXCEPT ![stage] = Min(@ + 1, PollCap - 1)]
    /\ elapsed' = Tick(1)
    /\ IF Tick(1) > args.timeout
       THEN Fail(CASE pc = "sleep_finalized" -> "block was not finalized in time"
                   [] pc = "sleep_proof" -> "log proof not available in time"
                   [] OTHER -> "interop root did not become available in time", <<>>)
       ELSE /\ pc' = CASE pc = "sleep_finalized" -> "wait_finalized"
                       [] pc = "sleep_proof" -> "wait_proof"
                       [] pc = "sleep_root" -> "wait_root"
                       [] OTHER -> "root_wait"
            /\ result' = result
    /\ UNCHANGED <<evm_bytes, evm_decoded, bundle_hash, cmd, args, status_stream,
                   source_chain_id, finalized, log_proof, root_available, bundle_status,
                   bundle, encoded_bundle, proof, handler_calls, handler_receipt, stdout,
                   polls, stage_log, last_rpc>>

\* tokio::time::sleep(poll) at the end of a loop iteration
Sleep ==
    /\ pc \in {"sleep_finalized", "sleep_proof", "sleep_root", "sleep_root_wait"}
    /\ LET stage == CASE pc = "sleep_finalized" -> "finalized"
                      [] pc = "sleep_proof" -> "proof"
                      [] OTHER -> "root"
       IN  sleeps' = [sleeps EXCEPT ![stage] = Min(@ + 1, PollCap - 1)]
    /\ elapsed' = Tick(1)
    /\ pc' = CASE pc = "sleep_finalized" -> "wait_finalized"
               [] pc = "sleep_proof" -> "wait_proof"
               [] pc = "sleep_root" -> "wait_root"
               [] OTHER -> "root_wait"
    /\ UNCHANGED <<evm_bytes, evm_decoded, bundle_hash, cmd, args, status_stream,
                   source_chain_id, finalized, log_proof, root_available, bundle_status,
                   bundle, encoded_bundle, proof, handler_calls, handler_receipt, stdout,
                   result, polls, stage_log, last_rpc>>

(***************************************************************************)
(* relay::run                                                              *)
(***************************************************************************)
\* signer check, receipt fetch, bundle extraction and re-encoding
RelayStart ==
    /\ cmd = "relay" /\ pc = "start"
    /\ \E receipt_ok \in BOOLEAN :
        LET decoded == decode_interop_bundle_sent(args.receipt.event_data.v)
            required == require_signer_or_dry_run(args.has_signer, args.dry_run, "relay")
        IN  IF ~required.ok
            THEN Fail(required.err, <<>>)
                    /\ UNCHANGED <<bundle, encoded_bundle, bundle_hash>>
            ELSE IF ~receipt_ok
            THEN Fail("transaction receipt not found", <<>>)
                    /\ UNCHANGED <<bundle, encoded_bundle, bundle_hash>>
            ELSE IF ~args.receipt.event_data.some
            THEN Fail("InteropBundleSent not found in receipt", <<>>)
                    /\ UNCHANGED <<bundle, encoded_bundle, bundle_hash>>
            ELSE IF ~decoded.ok
            THEN Fail(decoded.err, <<>>) /\ UNCHANGED <<bundle, encoded_bundle, bundle_hash>>
            ELSE /\ bundle' = SomeV(decoded.val.interopBundle)
                 /\ bundle_hash' = SomeV(decoded.val.interopBundleHash)
                 /\ encoded_bundle' = encode_interop_bundle(decoded.val.interopBundle)
                 /\ pc' = "wait_finalized"
                 /\ result' = result
    /\ elapsed' = 0
    /\ UNCHANGED <<evm_bytes, evm_decoded, cmd, args, status_stream,
                   source_chain_id, finalized, log_proof, root_available, bundle_status,
                   proof, handler_calls, handler_receipt, stdout, polls, sleeps, stage_log,
                   last_rpc>>

\* a variant that takes a block for finalized only once a later block is
wait_for_finalized_block_strict ==
    /\ cmd = "relay" /\ pc = "wait_finalized"
    /\ \E resp \in FinalizedResponses, d \in 0..MaxLatency :
        LET finalized_block == IF resp.ok THEN resp.val ELSE 0
        IN  /\ Polled("finalized", "eth_getBlockByNumber", <<>>, resp)
            /\ IF finalized_block > args.receipt.block_number
               THEN /\ pc' = "wait_proof"
                    /\ elapsed' = 0
                    /\ stage_log' = Append(stage_log, "Finalized")
                    /\ result' = result
               ELSE /\ TimeoutOrSleep(Tick(d), "block was not finalized in time",
                                      "sleep_finalized")
                    /\ elapsed' = Tick(d)
                    /\ stage_log' = stage_log
    /\ UNCHANGED <<evm_bytes, evm_decoded, bundle_hash, cmd, args, status_stream,
                   source_chain_id, finalized, log_proof, root_available, bundle_status,
                   bundle, encoded_bundle, proof, handler_calls, handler_receipt, stdout,
                   sleeps>>

\* one iteration of wait_for_finalized_block up to its sleep
wait_for_finalized_block ==
    /\ cmd = "relay" /\ pc = "wait_finalized"
    /\ \E resp \in FinalizedResponses, d \in 0..MaxLatency :
        LET finalized_block == IF resp.ok THEN resp.val ELSE 0
        IN  /\ Polled("finalized", "eth_getBlockByNumber", <<>>, resp)
            /\ IF finalized_block >= args.receipt.block_number
               THEN /\ pc' = "wait_proof"
                    /\ elapsed' = 0
                    /\ stage_log' = Append(stage_log, "Finalized")
                    /\ result' = result
               ELSE /\ TimeoutOrSleep(Tick(d), "block was not finalized in time",
                                      "sleep_finalized")
                    /\ elapsed' = Tick(d)
                    /\ stage_log' = stage_log
    /\ UNCHANGED <<evm_bytes, evm_decoded, bundle_hash, cmd, args, status_stream,
                   source_chain_id, finalized, log_proof, root_available, bundle_status,
                   bundle, encoded_bundle, proof, handler_calls, handler_receipt, stdout,
                   sleeps>>

\* one iteration of wait_for_log_proof up to its sleep
wait_for_log_proof ==
    /\ cmd = "relay" /\ pc = "wait_proof"
    /\ \E resp \in LogProofResponses, d \in 0..MaxLatency :
        /\ Polled("proof", "zks_getL2ToL1LogProof", <<>>, resp)
        /\ IF ~resp.ok
           THEN /\ Fail(resp.err, <<>>)
                /\ elapsed' = 0
                /\ UNCHANGED <<log_proof, stage_log>>
           ELSE IF resp.val.some
           THEN /\ log_proof' = resp.val
                /\ pc' = "chain_id"
                /\ elapsed' = 0
                /\ stage_log' = Append(stage_log, "ProofObtained")
                /\ result' = result
           ELSE /\ TimeoutOrSleep(Tick(d), "log proof not available in time", "sleep_proof")
                /\ elapsed' = Tick(d)
                /\ UNCHANGED <<log_proof, stage_log>>
    /\ UNCHANGED <<evm_bytes, evm_decoded, bundle_hash, cmd, args, status_stream,
                   source_chain_id, finalized, root_available, bundle_status, bundle,
                   encoded_bundle, proof, handler_calls, handler_receipt, stdout, sleeps>>

\* a variant that also sends the handler a transaction with the chain id
RelayChainIdSending ==
    /\ cmd = "relay" /\ pc = "chain_id"
    /\ \E resp \in ChainIdResponses :
        IF ~resp.ok
        THEN Fail(resp.err, <<>>) /\ UNCHANGED <<source_chain_id, handler_calls>>
        ELSE /\ source_chain_id' = resp.val
             /\ handler_calls' = Append(handler_calls,
                    [kind |-> "send_transaction", calldata |-> resp.val])
             /\ IF B256FromStr(log_proof.v.root).ok
                THEN pc' = "wait_root" /\ result' = result
                ELSE Fail(B256FromStr(log_proof.v.root).err, <<>>)
    /\ elapsed' = 0
    /\ UNCHANGED <<evm_bytes, evm_decoded, bundle_hash, cmd, args, status_stream, finalized,
                   log_proof, root_available, bundle_status, bundle, encoded_bundle, proof,
                   handler_receipt, stdout, polls, sleeps, stage_log,
                   last_rpc>>

\* get_chain_id on the source chain, then the entry of wait_for_root, which
\* parses the proof's root before its loop starts
RelayChainId ==
    /\ cmd = "relay" /\ pc = "chain_id"
    /\ \E resp \in ChainIdResponses :
        IF ~resp.ok
        THEN Fail(resp.err, <<>>) /\ UNCHANGED source_chain_id
        ELSE /\ source_chain_id' = resp.val
             /\ IF B256FromStr(log_proof.v.root).ok
                THEN pc' = "wait_root" /\ result' = result
                ELSE Fail(B256FromStr(log_proof.v.root).err, <<>>)
    /\ elapsed' = 0
    /\ UNCHANGED <<evm_bytes, evm_decoded, bundle_hash, cmd, args, status_stream, finalized,
                   log_proof, root_available, bundle_status, bundle, encoded_bundle, proof,
                   handler_calls, handler_receipt, stdout, polls, sleeps, stage_log,
                   last_rpc>>

\* a variant of the loop that treats a differing root like a root not yet there
RootLoopRetryMismatch(chain_id, batch_number, expected, success_pc, sleep_pc) ==
    \E resp \in RootResponses, d \in 0..MaxLatency :
        /\ Polled("root", "interopRoots", <<chain_id, batch_number>>, resp)
        /\ elapsed' = (IF resp.ok /\ resp.val # expected THEN Tick(d) ELSE 0)
        /\ IF ~resp.ok
           THEN Fail(resp.err, <<>>) /\ UNCHANGED <<stdout, stage_log>>
           ELSE IF resp.val = expected /\ resp.val # B256(0)
           THEN /\ Println("interop root available", format_hex(resp.val))
                /\ pc' = success_pc
                /\ result' = (IF success_pc = "done" THEN Success ELSE result)
                /\ stage_log' = Append(stage_log, "RootPropagated")
           ELSE /\ TimeoutOrSleep(Tick(d), "interop root did not become available in time",
                                  sleep_pc)
                /\ UNCHANGED <<stdout, stage_log>>

\* one iteration of the interopRoots loop (wait_for_root, root_wait::run) up to
\* its sleep: a non-zero root ends the loop at once, with success or a mismatch
RootLoop(chain_id, batch_number, expected, success_pc, sleep_pc) ==
    \E resp \in RootResponses, d \in 0..MaxLatency :
        /\ Polled("root", "interopRoots", <<chain_id, batch_number>>, resp)
        /\ elapsed' = (IF resp.ok /\ resp.val = B256(0) THEN Tick(d) ELSE 0)
        /\ IF ~resp.ok
           THEN Fail(resp.err, <<>>) /\ UNCHANGED <<stdout, stage_log>>
           ELSE IF resp.val # B256(0)
           THEN IF resp.val = expected
                THEN /\ Println("interop root available", format_hex(resp.val))
                     /\ pc' = success_pc
                     /\ result' = (IF success_pc = "done" THEN Success ELSE result)
                     /\ stage_log' = Append(stage_log, "RootPropagated")
                ELSE /\ Fail("interop root mismatch", format_hex(resp.val))
                     /\ UNCHANGED <<stdout, stage_log>>
           ELSE /\ TimeoutOrSleep(Tick(d), "interop root did not become available in time",
                                  sleep_pc)
                /\ UNCHANGED <<stdout, stage_log>>

wait_for_root ==
    /\ cmd = "relay" /\ pc = "wait_root"
    /\ RootLoop(source_chain_id, log_proof.v.batch_number,
                B256FromStr(log_proof.v.root).val, "call", "sleep_root")
    /\ UNCHANGED <<evm_bytes, evm_decoded, bundle_hash, cmd, args, status_stream,
                   source_chain_id, finalized, log_proof, root_available, bundle_status,
                   bundle, encoded_bundle, proof, handler_calls, handler_receipt, sleeps>>

\* the anyhow error eth_call_with_value makes of a failed provider.call
eth_call_error(err) ==
    IF decode_revert_reason(err).some
    THEN Str_dry_run_reverted \o decode_revert_reason(err).v
    ELSE Str_dry_run_failed \o err

\* decode_send_transaction: the anyhow error made of a failed send_transaction
decode_send_transaction(err) ==
    IF decode_revert_reason(err).some
    THEN Str_submission_reverted \o decode_revert_reason(err).v
    ELSE Str_submission_failed \o err

Panicked == [status |-> "panic", msg |-> "", detail |-> <<>>]

\* a variant that hands the siblings over last one first
RelayProofReversed ==
    [chain_id |-> ToDecimal(source_chain_id),
     l1_batch_number |-> log_proof.v.batch_number,
     l2_message_index |-> log_proof.v.id,
     root |-> log_proof.v.root,
     message |-> [tx_number_in_batch |-> args.receipt.transaction_index,
                  sender |-> format_hex(args.center),
                  data |-> message_data(encoded_bundle)],
     proof |-> [k \in 1..Len(log_proof.v.proof) |->
                    log_proof.v.proof[Len(log_proof.v.proof) + 1 - k]]]

\* the MessageInclusionProof relay::run builds from the log proof
RelayProof ==
    [chain_id |-> ToDecimal(source_chain_id),
     l1_batch_number |-> log_proof.v.batch_number,
     l2_message_index |-> log_proof.v.id,
     root |-> log_proof.v.root,
     message |-> [tx_number_in_batch |-> args.receipt.transaction_index,
                  sender |-> format_hex(args.center),
                  data |-> message_data(encoded_bundle)],
     proof |-> log_proof.v.proof]

RelayCalldata ==
    IF args.mode = "verify" THEN encode_verify_bundle_call(encoded_bundle, RelayProof)
    ELSE IF args.mode = "execute" THEN encode_execute_bundle_call(encoded_bundle, RelayProof)
    ELSE Err("invalid mode (expected verify or execute)")

HandlerCall(kind, calldata) == [kind |-> kind, calldata |-> calldata]

\* relay::run, dry-run branch: build the calldata, simulate with eth_call
RelayDryRun ==
    /\ cmd = "relay" /\ pc = "call" /\ args.dry_run
    /\ proof' = SomeV(RelayProof)
    /\ IF ~RelayCalldata.ok
       THEN /\ Fail(RelayCalldata.err, <<>>)
            /\ UNCHANGED <<handler_calls, stdout, stage_log, last_rpc>>
       ELSE \E resp \in CallResponses :
            /\ handler_calls' = Append(handler_calls, HandlerCall("eth_call", RelayCalldata.val))
            /\ last_rpc' = [method |-> "eth_call", stage |-> "call", params |-> <<>>,
                            resp |-> resp]
            /\ stage_log' = Append(stage_log, "Submitted")
            /\ IF resp.ok
               THEN /\ Println("dry-run success", <<>>)
                    /\ pc' = "finish" /\ result' = result
               ELSE IF decode_revert_reason(resp.err).panic
               THEN pc' = "failed" /\ result' = Panicked /\ stdout' = stdout
               ELSE /\ Println("dry-run failed: {err}", eth_call_error(resp.err))
                    /\ pc' = "finish" /\ result' = result
    /\ UNCHANGED <<evm_bytes, evm_decoded, bundle_hash, cmd, args, status_stream,
                   source_chain_id, elapsed, finalized, log_proof, root_available,
                   bundle_status, bundle, encoded_bundle, handler_receipt, polls, sleeps>>

\* relay::run, signing branch: build the calldata, send the transaction
RelaySend ==
    /\ cmd = "relay" /\ pc = "call" /\ ~args.dry_run
    /\ proof' = SomeV(RelayProof)
    /\ IF ~RelayCalldata.ok
       THEN /\ Fail(RelayCalldata.err, <<>>)
            /\ UNCHANGED <<handler_calls, stdout, stage_log, last_rpc>>
       ELSE \E chain \in ChainIdResponses, resp \in CallResponses :
            IF ~args.has_signer
            THEN /\ pc' = "failed" /\ result' = Panicked
                 /\ UNCHANGED <<handler_calls, stdout, stage_log, last_rpc>>
            ELSE IF ~chain.ok
            THEN /\ Fail(chain.err, <<>>)
                 /\ UNCHANGED <<handler_calls, stdout, stage_log, last_rpc>>
            ELSE /\ last_rpc' = [method |-> "eth_sendRawTransaction", stage |-> "call",
                                 params |-> <<>>, resp |-> resp]
                 /\ stage_log' = Append(stage_log, "Submitted")
                 /\ IF resp.ok
                    THEN /\ handler_calls' = Append(handler_calls,
                                HandlerCall("send_transaction", RelayCalldata.val))
                         /\ Println("sent tx", <<>>)
                         /\ pc' = "finish" /\ result' = result
                    ELSE /\ Fail("", resp.err)
                         /\ UNCHANGED <<handler_calls, stdout>>
    /\ UNCHANGED <<evm_bytes, evm_decoded, bundle_hash, cmd, args, status_stream,
                   source_chain_id, elapsed, finalized, log_proof, root_available,
                   bundle_status, bundle, encoded_bundle, handler_receipt, polls, sleeps>>

\* relay::run after the call: write_relay_outputs when --out-dir is set, Ok(())
RelayFinish ==
    /\ cmd = "relay" /\ pc = "finish"
    /\ IF args.out_dir
       THEN \E chain \in ChainIdResponses :
            IF ~chain.ok
            THEN /\ Println("bundle.hex, proof.json", format_hex(encoded_bundle))
                 /\ Fail(chain.err, <<>>)
            ELSE /\ Println("bundle.hex, proof.json, relay_summary.json",
                            format_hex(encoded_bundle))
                 /\ pc' = "done" /\ result' = Success
       ELSE pc' = "done" /\ result' = Success /\ stdout' = stdout
    /\ UNCHANGED <<evm_bytes, evm_decoded, bundle_hash, cmd, args, status_stream,
                   source_chain_id, elapsed, finalized, log_proof, root_available,
                   bundle_status, bundle, encoded_bundle, proof, handler_calls,
                   handler_receipt, polls, sleeps, stage_log, last_rpc>>

(***************************************************************************)
(* bundle_action::run_bundle_action (bundle verify / bundle execute)       *)
(***************************************************************************)
\* a variant that keeps the sender the proof file carries
OverriddenProofKeepSender(file, center, bundle_bytes) ==
    [file EXCEPT !.message.data = message_data(bundle_bytes)]

\* the proof after the sender and data override
OverriddenProof(file, center, bundle_bytes) ==
    [file EXCEPT !.message.sender = format_hex(center),
                 !.message.data = message_data(bundle_bytes)]

BundleCalldata(is_verify, bundle_bytes, proof_) ==
    IF is_verify THEN encode_verify_bundle_call(bundle_bytes, proof_)
    ELSE encode_execute_bundle_call(bundle_bytes, proof_)

\* signer check, loading of --bundle and --proof, override, calldata
BundleActionStart ==
    /\ cmd \in {"bundle verify", "bundle execute"} /\ pc = "start"
    /\ LET loaded == decode_hex(args.bundle)
           overridden == OverriddenProof(args.proof, args.center, loaded.val)
           calldata == BundleCalldata(cmd = "bundle verify", loaded.val, overridden)
           required == require_signer_or_dry_run(args.has_signer, args.dry_run, cmd)
       IN  IF ~required.ok
           THEN /\ Fail(required.err, <<>>)
                /\ UNCHANGED <<encoded_bundle, proof, stdout>>
           ELSE IF ~loaded.ok
           THEN /\ Fail(loaded.err, <<>>)
                /\ UNCHANGED <<encoded_bundle, proof, stdout>>
           ELSE /\ encoded_bundle' = loaded.val
                /\ proof' = SomeV(overridden)
                /\ IF args.proof.message.sender # format_hex(args.center)
                   THEN Println("warning: overriding proof sender", args.proof.message.sender)
                   ELSE stdout' = stdout
                /\ IF calldata.ok
                   THEN pc' = "call" /\ result' = result
                   ELSE Fail(calldata.err, <<>>)
    /\ UNCHANGED <<evm_bytes, evm_decoded, bundle_hash, cmd, args, status_stream,
                   source_chain_id, elapsed, finalized, log_proof, root_available,
                   bundle_status, bundle, handler_calls, handler_receipt, polls, sleeps,
                   stage_log, last_rpc>>

\* dry-run branch: eth_call, the revert reason decoded for the report
BundleActionDryRun ==
    /\ cmd \in {"bundle verify", "bundle execute"} /\ pc = "call" /\ args.dry_run
    /\ \E resp \in CallResponses :
        /\ handler_calls' = Append(handler_calls,
                HandlerCall("eth_call",
                            BundleCalldata(cmd = "bundle verify", encoded_bundle, proof.v).val))
        /\ last_rpc' = [method |-> "eth_call", stage |-> "call", params |-> <<>>,
                        resp |-> resp]
        /\ IF resp.ok
           THEN /\ Println("dry-run success", <<>>)
                /\ pc' = "done" /\ result' = Success
           ELSE IF decode_revert_reason(resp.err).panic
                    \/ decode_revert_reason(eth_call_error(resp.err)).panic
           THEN pc' = "failed" /\ result' = Panicked /\ stdout' = stdout
           ELSE /\ IF decode_revert_reason(eth_call_error(resp.err)).some
                   THEN Println("dry-run revert: {reason}",
                                Str_dry_run_revert
                                    \o decode_revert_reason(eth_call_error(resp.err)).v)
                   ELSE Println("dry-run failed: {err}",
                                Str_dry_run_failed \o eth_call_error(resp.err))
                /\ pc' = "done" /\ result' = Success
    /\ UNCHANGED <<evm_bytes, evm_decoded, bundle_hash, cmd, args, status_stream,
                   source_chain_id, elapsed, finalized, log_proof, root_available,
                   bundle_status, bundle, encoded_bundle, proof, handler_receipt, polls,
                   sleeps, stage_log>>

\* signing branch: send_transaction through decode_send_transaction
BundleActionSend ==
    /\ cmd \in {"bundle verify", "bundle execute"} /\ pc = "call" /\ ~args.dry_run
    /\ \E chain \in ChainIdResponses, resp \in CallResponses :
        IF ~args.has_signer
        THEN /\ pc' = "failed" /\ result' = Panicked
             /\ UNCHANGED <<handler_calls, stdout, last_rpc>>
        ELSE IF ~chain.ok
        THEN /\ Fail(chain.err, <<>>)
             /\ UNCHANGED <<handler_calls, stdout, last_rpc>>
        ELSE /\ last_rpc' = [method |-> "eth_sendRawTransaction", stage |-> "call",
                             params |-> <<>>, resp |-> resp]
             /\ IF resp.ok
                THEN /\ handler_calls' = Append(handler_calls,
                            HandlerCall("send_transaction",
                                BundleCalldata(cmd = "bundle verify", encoded_bundle,
                                               proof.v).val))
                     /\ Println("sent tx", <<>>)
                     /\ pc' = "done" /\ result' = Success
                ELSE IF decode_revert_reason(resp.err).panic
                THEN /\ pc' = "failed" /\ result' = Panicked
                     /\ UNCHANGED <<handler_calls, stdout>>
                ELSE /\ Fail("", decode_send_transaction(resp.err))
                     /\ UNCHANGED <<handler_calls, stdout>>
    /\ UNCHANGED <<evm_bytes, evm_decoded, bundle_hash, cmd, args, status_stream,
                   source_chain_id, elapsed, finalized, log_proof, root_available,
                   bundle_status, bundle, encoded_bundle, proof, handler_receipt, polls,
                   sleeps, stage_log>>

(***************************************************************************)
(* root_wait::run (debug root)                                             *)
(***************************************************************************)
\* parse_u256 / parse_b256 of the arguments, start of the clock
RootWaitStart ==
    /\ cmd = "debug root" /\ pc = "start"
    /\ IF B256FromStr(args.expected_root).ok
       THEN pc' = "root_wait" /\ result' = result
       ELSE Fail("invalid bytes32", args.expected_root)
    /\ elapsed' = 0
    /\ UNCHANGED <<evm_bytes, evm_decoded, bundle_hash, cmd, args, status_stream,
                   source_chain_id, finalized, log_proof, root_available, bundle_status,
                   bundle, encoded_bundle, proof, handler_calls, handler_receipt, stdout,
                   polls, sleeps, stage_log, last_rpc>>

RootWaitRun ==
    /\ cmd = "debug root" /\ pc = "root_wait"
    /\ RootLoop(args.source_chain, args.batch, B256FromStr(args.expected_root).val,
                "done", "sleep_root_wait")
    /\ UNCHANGED <<evm_bytes, evm_decoded, bundle_hash, cmd, args, status_stream,
                   source_chain_id, finalized, log_proof, root_available, bundle_status,
                   bundle, encoded_bundle, proof, handler_calls, handler_receipt, sleeps>>

(***************************************************************************)
(* Specification of relay, bundle verify/execute and debug root            *)
(***************************************************************************)
Next ==
    \/ RelayStart
    \/ wait_for_finalized_block
    \/ wait_for_log_proof
    \/ RelayChainId
    \/ wait_for_root
    \/ Sleep
    \/ RelayDryRun
    \/ RelaySend
    \/ RelayFinish
    \/ BundleActionStart
    \/ BundleActionDryRun
    \/ BundleActionSend
    \/ RootWaitStart
    \/ RootWaitRun

Spec == Init /\ [][Next]_vars

(***************************************************************************)
(* watch::run                                                              *)
(***************************************************************************)
bundle_status_string(value) ==
    CASE value = 0 -> "Unreceived"
      [] value = 1 -> "Verified"
      [] value = 2 -> "FullyExecuted"
      [] value = 3 -> "Unbundled"
      [] OTHER -> "Unknown"

\* decode_bundle_status: the (U256,) word narrowed to u64 with try_into().unwrap(),
\* a panic when it does not fit, then `as u8`, which keeps the low byte
decode_bundle_status(data) ==
    IF Len(data) < 32 THEN [panic |-> FALSE, ok |-> FALSE, val |-> 0]
    ELSE IF \E i \in 1..24 : data[i] # 0 THEN [panic |-> TRUE, ok |-> FALSE, val |-> 0]
    ELSE [panic |-> FALSE, ok |-> TRUE, val |-> data[32] % 256]

\* decode_bytes32 of an eth_call result
decode_bytes32(data) == IF Len(data) < 32 THEN Err("abi: buffer overrun") ELSE Ok(WordAt(data, 0))

ToAsciiLower(c) ==
    IF \E i \in 11..16 : UpperHexChars[i] = c
    THEN HexChars[CHOOSE i \in 11..16 : UpperHexChars[i] = c]
    ELSE IF c = "X" THEN "x" ELSE c

eq_ignore_ascii_case(a, b) ==
    /\ Len(a) = Len(b)
    /\ \A i \in 1..Len(a) : ToAsciiLower(a[i]) = ToAsciiLower(b[i])

\* the Ok value of fetch_root, given the decoded interopRoots answer
fetch_root(root, expected_root) ==
    root # B256(0) /\ eq_ignore_ascii_case(format_hex(root), expected_root)

\* extract_bundle_hash: Result<Option<B256>>
extract_bundle_hash(receipt) ==
    IF ~receipt.event_data.some THEN Ok(NoneV)
    ELSE LET decoded == decode_interop_bundle_sent(receipt.event_data.v)
         IN  IF ~decoded.ok THEN Err("failed to decode InteropBundleSent")
             ELSE Ok(SomeV(decoded.val.interopBundleHash))

WatchArgs(in) ==
    {[BaseArgs EXCEPT !.timeout = t, !.until = [some |-> in.until # "", v |-> in.until], !.receipt = in.receipt,
                      !.handler_stream = in.stream] :
        t \in 0..MaxTimeout}

\* what one bundleStatus call can answer: the next value of the stream, a word
\* that exceeds u64, an empty answer, a failed call
StatusResponses ==
    {RpcError, Ok(<<>>), Ok([i \in 1..32 |-> IF i = 1 THEN 1 ELSE 0]),
     Ok(Word(Head(status_stream)))}

InitWatch ==
    LET
        \* bundleStatus answers of the handler: the enum values, values outside the enum
        \* below and above 256, a word that exceeds u64, an empty answer, a failed call
        \* --until (absent, the two targets, a value that is neither) with the streams of
        \* values bundleStatus returns from poll to poll, the last one repeating: the
        \* enum values in and out of order, and values outside the enum below and above 256
        UntilStreams ==
            {<<"", st>> : st \in {<<0, 1, 2>>, <<3>>}}
                \cup {<<"verified", st>> :
                        st \in {<<0, 0, 1>>, <<2>>, <<0, 3>>, <<1, 0, 1>>, <<0, 257>>, <<260, 257, 2>>}}
                \cup {<<"executed", st>> :
                        st \in {<<0, 1, 2>>, <<1, 1, 2>>, <<3>>, <<1, 0, 1>>, <<260, 257, 2>>}}
                \cup {<<"done", <<0, 1, 2>> >>}
        \* the receipts of the watch runs: against every stream the receipt of a bundle
        \* in block MaxBlock; against two of them the other receipts
        WatchInputs ==
            {[until |-> us[1], stream |-> us[2], receipt |-> r] :
                us \in UntilStreams, r \in {x \in Receipts : x.block_number = MaxBlock}}
            \cup {[until |-> us[1], stream |-> us[2], receipt |-> r] :
                    us \in {<<"", <<0, 1, 2>> >>, <<"verified", <<0, 0, 1>> >>},
                    r \in {x \in Receipts : x.block_number = 0}}
    IN
        /\ InitCommon
        /\ cmd = "watch"
        /\ \E in \in WatchInputs : args \in WatchArgs(in)
        /\ status_stream = args.handler_stream

\* a variant that runs the finalization, proof and root blocks in every iteration
WatchPcEveryBlock(step, finalized_, log_proof_, root_available_) ==
    IF step <= 1 THEN "watch_finalized"
    ELSE IF step <= 2 THEN "watch_log_proof"
    ELSE IF step <= 3 /\ log_proof_.some THEN "watch_root"
    ELSE IF step <= 4 /\ bundle_hash.some THEN "watch_status"
    ELSE "watch_until"

\* the next block of the loop body that has work to do, from block `step` on
WatchPc(step, finalized_, log_proof_, root_available_) ==
    IF step <= 1 /\ ~finalized_ THEN "watch_finalized"
    ELSE IF step <= 2 /\ ~log_proof_.some THEN "watch_log_proof"
    ELSE IF step <= 3 /\ log_proof_.some /\ ~root_available_ THEN "watch_root"
    ELSE IF step <= 4 /\ bundle_hash.some THEN "watch_status"
    ELSE "watch_until"

emit_event(name, details) == Println(name, details)

\* receipt fetch, start of the clock, extract_bundle_hash
WatchStart ==
    /\ cmd = "watch" /\ pc = "start"
    /\ \E receipt_ok \in BOOLEAN :
        IF ~receipt_ok
        THEN Fail("transaction receipt not found", <<>>) /\ UNCHANGED bundle_hash
        ELSE IF ~extract_bundle_hash(args.receipt).ok
        THEN Fail(extract_bundle_hash(args.receipt).err, <<>>) /\ UNCHANGED bundle_hash
        ELSE /\ bundle_hash' = extract_bundle_hash(args.receipt).val
             /\ pc' = WatchPc(1, FALSE, NoneV, FALSE)
             /\ result' = result
    /\ elapsed' = 0
    /\ UNCHANGED <<evm_bytes, evm_decoded, cmd, args, status_stream,
                   source_chain_id, finalized, log_proof, root_available, bundle_status,
                   bundle, encoded_bundle, proof, handler_calls, handler_receipt, stdout,
                   polls, sleeps, stage_log, last_rpc>>

\* the `if !finalized` block of the loop body
WatchFinalized ==
    /\ cmd = "watch" /\ pc = "watch_finalized"
    /\ \E resp \in FinalizedResponses :
        /\ Polled("finalized", "eth_getBlockByNumber", <<>>, resp)
        /\ IF resp.ok /\ resp.val >= args.receipt.block_number
           THEN /\ finalized' = TRUE
                /\ emit_event("finalized", resp.val)
                /\ stage_log' = Append(stage_log, "Finalized")
           ELSE UNCHANGED <<finalized, stdout, stage_log>>
        /\ pc' = WatchPc(2, finalized', log_proof, root_available)
    /\ UNCHANGED <<evm_bytes, evm_decoded, bundle_hash, cmd, args, status_stream, elapsed,
                   source_chain_id, log_proof, root_available, bundle_status, bundle,
                   encoded_bundle, proof, handler_calls, handler_receipt, result, sleeps>>

\* the `if log_proof.is_none()` block
WatchLogProof ==
    /\ cmd = "watch" /\ pc = "watch_log_proof"
    /\ \E resp \in LogProofResponses :
        /\ Polled("proof", "zks_getL2ToL1LogProof", <<>>, resp)
        /\ IF ~resp.ok
           THEN Fail(resp.err, <<>>) /\ UNCHANGED <<log_proof, stdout, stage_log>>
           ELSE /\ IF resp.val.some
                   THEN /\ log_proof' = resp.val
                        /\ emit_event("log_proof", resp.val.v.root)
                        /\ stage_log' = Append(stage_log, "ProofObtained")
                   ELSE UNCHANGED <<log_proof, stdout, stage_log>>
                /\ pc' = WatchPc(3, finalized, log_proof', root_available)
                /\ result' = result
    /\ UNCHANGED <<evm_bytes, evm_decoded, bundle_hash, cmd, args, status_stream, elapsed,
                   source_chain_id, finalized, root_available, bundle_status, bundle,
                   encoded_bundle, proof, handler_calls, handler_receipt, sleeps>>

\* the `if !root_available` block: fetch_root and its event
WatchRoot ==
    /\ cmd = "watch" /\ pc = "watch_root"
    /\ \E chain \in ChainIdResponses, resp \in RootResponses :
        IF ~chain.ok
        THEN /\ Fail(chain.err, <<>>)
             /\ UNCHANGED <<source_chain_id, root_available, stdout, stage_log, polls,
                            last_rpc>>
        ELSE /\ source_chain_id' = chain.val
             /\ Polled("root", "interopRoots", <<chain.val, log_proof.v.batch_number>>, resp)
             /\ IF ~resp.ok
                THEN Fail(resp.err, <<>>) /\ UNCHANGED <<root_available, stdout, stage_log>>
                ELSE IF ~decode_bytes32(resp.val).ok
                THEN /\ Fail(decode_bytes32(resp.val).err, <<>>)
                     /\ UNCHANGED <<root_available, stdout, stage_log>>
                ELSE /\ IF fetch_root(decode_bytes32(resp.val).val, log_proof.v.root)
                        THEN /\ root_available' = TRUE
                             /\ emit_event("root_available", log_proof.v.root)
                             /\ stage_log' = Append(stage_log, "RootPropagated")
                        ELSE UNCHANGED <<root_available, stdout, stage_log>>
                     /\ pc' = WatchPc(4, finalized, log_proof, root_available')
                     /\ result' = result
    /\ UNCHANGED <<evm_bytes, evm_decoded, bundle_hash, cmd, args, status_stream, elapsed,
                   finalized, log_proof, bundle_status, bundle, encoded_bundle, proof,
                   handler_calls, handler_receipt, sleeps>>

\* a variant that reports the status on every tick
status_changed_every_tick(last, status) == TRUE

\* `bundle_status != Some(status)`
status_changed(last, status) == ~last.some \/ last.v # status

\* fetch_bundle_status and the bundle_status event
WatchStatus ==
    /\ cmd = "watch" /\ pc = "watch_status"
    /\ \E resp \in StatusResponses :
        /\ Polled("status", "bundleStatus", bundle_hash.v, resp)
        /\ status_stream' = (IF Len(status_stream) > 1 THEN Tail(status_stream)
                             ELSE status_stream)
        /\ IF ~resp.ok
           THEN Fail(resp.err, <<>>) /\ UNCHANGED <<bundle_status, stdout>>
           ELSE IF decode_bundle_status(resp.val).panic
           THEN pc' = "failed" /\ result' = Panicked /\ UNCHANGED <<bundle_status, stdout>>
           ELSE IF ~decode_bundle_status(resp.val).ok
           THEN Fail("abi: buffer overrun", <<>>) /\ UNCHANGED <<bundle_status, stdout>>
           ELSE LET status == decode_bundle_status(resp.val).val
                IN  /\ IF status_changed(bundle_status, status)
                       THEN /\ bundle_status' = SomeV(status)
                            /\ emit_event("bundle_status", bundle_status_string(status))
                       ELSE UNCHANGED <<bundle_status, stdout>>
                    /\ pc' = "watch_until"
                    /\ result' = result
    /\ UNCHANGED <<evm_bytes, evm_decoded, bundle_hash, cmd, args, elapsed, source_chain_id,
                   finalized, log_proof, root_available, bundle, encoded_bundle, proof,
                   handler_calls, handler_receipt, sleeps, stage_log>>

\* a variant of the target test that also accepts Unbundled
until_met_unbundled(target, status) == status.some /\ status.v \in {1, 2, 3}

\* matches!(bundle_status, Some(1 | 2)) for verified, Some(2) for executed
until_met(target, status) ==
    IF target = "verified" THEN status.some /\ status.v \in {1, 2}
    ELSE status.some /\ status.v = 2

\* the --until test, then the deadline test, at the end of the loop body
WatchUntil ==
    /\ cmd = "watch" /\ pc = "watch_until"
    /\ \E d \in 0..MaxLatency :
        IF args.until.some /\ args.until.v \notin {"verified", "executed"}
        THEN /\ Fail("invalid --until value {target} (expected verified or executed)", <<>>)
             /\ elapsed' = 0
        ELSE IF args.until.some /\ until_met(args.until.v, bundle_status)
        THEN /\ pc' = "done" /\ result' = Success
             /\ elapsed' = 0
        ELSE /\ TimeoutOrSleep(Tick(d), "watch timeout reached", "watch_sleep")
             /\ elapsed' = Tick(d)
    /\ UNCHANGED <<evm_bytes, evm_decoded, bundle_hash, cmd, args, status_stream,
                   source_chain_id, finalized, log_proof, root_available, bundle_status,
                   bundle, encoded_bundle, proof, handler_calls, handler_receipt, stdout,
                   polls, sleeps, stage_log, last_rpc>>

\* tokio::time::sleep(poll), then the next iteration of the loop
WatchSleep ==
    /\ cmd = "watch" /\ pc = "watch_sleep"
    /\ sleeps' = [sleeps EXCEPT !["status"] = Min(@ + 1, PollCap - 1)]
    /\ elapsed' = Tick(1)
    /\ pc' = WatchPc(1, finalized, log_proof, root_available)
    /\ UNCHANGED <<evm_bytes, evm_decoded, bundle_hash, cmd, args, status_stream,
                   source_chain_id, finalized, log_proof, root_available, bundle_status,
                   bundle, encoded_bundle, proof, handler_calls, handler_receipt, stdout,
                   result, polls, stage_log, last_rpc>>

NextWatch ==
    \/ WatchStart
    \/ WatchFinalized
    \/ WatchLogProof
    \/ WatchRoot
    \/ WatchStatus
    \/ WatchUntil
    \/ WatchSleep

SpecWatch == InitWatch /\ [][NextWatch]_vars

(***************************************************************************)
(* The commands that wait: relay, debug root and watch.  Inside a wait     *)
(* loop every RPC call returns and every sleep elapses, and the runtime    *)
(* then resumes the command's future: the steps of the loops are taken     *)
(* when they can be                                                        *)
(***************************************************************************)
InitWaits == Init \/ InitWatch

NextWaits == Next \/ NextWatch

\* the positions inside a wait loop
WaitPcs ==
    {"wait_finalized", "sleep_finalized", "wait_proof", "sleep_proof", "wait_root",
     "sleep_root", "root_wait", "sleep_root_wait", "watch_finalized", "watch_log_proof",
     "watch_root", "watch_status", "watch_until", "watch_sleep"}

\* one step of a wait loop: a poll with the tests that follow it, or a sleep
WaitStep ==
    \/ wait_for_finalized_block
    \/ wait_for_log_proof
    \/ wait_for_root
    \/ RootWaitRun
    \/ Sleep
    \/ WatchFinalized
    \/ WatchLogProof
    \/ WatchRoot
    \/ WatchStatus
    \/ WatchUntil
    \/ WatchSleep

SpecWaits == InitWaits /\ [][NextWaits]_vars /\ WF_vars(WaitStep)

(***************************************************************************)
(* bundle_extract::run, over the bundles a source chain can have emitted   *)
(***************************************************************************)
InitCodec ==
    LET
        CodecArgs ==
            {[BaseArgs EXCEPT !.emitted = SomeV(b),
                              !.receipt = [block_number |-> 0, transaction_index |-> 3,
                                           event_data |-> SomeV(EncBundleSent(B256(1), B256(2), b))]] :
                b \in Bundles}
    IN
        /\ InitCommon
        /\ status_stream = <<>>
        /\ cmd = "bundle extract"
        /\ args \in CodecArgs

\* receipt fetch, decode_interop_bundle_sent, encode_interop_bundle, the two lines printed
BundleExtract ==
    /\ cmd = "bundle extract" /\ pc = "start"
    /\ \E receipt_ok \in BOOLEAN :
        LET decoded == decode_interop_bundle_sent(args.receipt.event_data.v)
        IN  IF ~receipt_ok
            THEN /\ Fail("transaction receipt not found", <<>>)
                 /\ UNCHANGED <<bundle, encoded_bundle, stdout>>
            ELSE IF ~decoded.ok
            THEN /\ Fail(decoded.err, <<>>)
                 /\ UNCHANGED <<bundle, encoded_bundle, stdout>>
            ELSE /\ bundle' = SomeV(decoded.val.interopBundle)
                 /\ encoded_bundle' = encode_interop_bundle(decoded.val.interopBundle)
                 /\ stdout' = stdout
                        \o <<[line |-> "encodedBundleHex: {}",
                              detail |-> format_hex(encoded_bundle')],
                             [line |-> "bundleHash: {}",
                              detail |-> format_hex(decoded.val.interopBundleHash)]>>
                 /\ pc' = "done"
                 /\ result' = Success
    /\ UNCHANGED <<evm_bytes, evm_decoded, bundle_hash, cmd, args, status_stream, elapsed,
                   source_chain_id, finalized, log_proof, root_available, bundle_status,
                   proof, handler_calls, handler_receipt, polls, sleeps, stage_log,
                   last_rpc>>

NextCodec == BundleExtract

SpecCodec == InitCodec /\ [][NextCodec]_vars

(***************************************************************************)
(* The ERC-7930 codec at work: `encode 7930` and the senders encode a      *)
(* chain id and an address (encode.rs 17-44), explain decodes the address  *)
(* bytes of a bundle (explain.rs 191, encode.rs 101-135)                   *)
(***************************************************************************)
InitAddress ==
    /\ InitCommon
    /\ status_stream = <<>>
    /\ cmd = "erc7930"
    /\ LET
        \* chain ids of 1 to 32 significant bytes, among them 0, 2^255 and 2^256 - 1
        ChainIdSamples ==
            {U256From(n) : n \in {0, 1, 255, 256, 324, 65536, 16777216}}
                \cup {[k \in 1..16 |-> IF k = 16 THEN 32768 ELSE 0],
                      [k \in 1..16 |-> 65535],
                      [k \in 1..16 |-> IF k = 16 THEN 255 ELSE 0],
                      [k \in 1..16 |-> IF k = 9 THEN 1 ELSE IF k = 1 THEN 5 ELSE 0]}
        AddressSamples == {Addr(9), Zeros(20), [i \in 1..20 |-> 255]}
        \* address bytes as a bundle can carry them: too short, with another header,
        \* with lengths that run past the end, with an address length other than 0 and
        \* 20, well formed, with trailing bytes, and with a chain reference of 33 bytes
        BufferSamples ==
            {<<>>, <<9, 9>>, <<0, 1, 0, 0>>, <<0, 1, 0, 0, 0>>, <<0, 2, 0, 0, 0>>,
             <<0, 2, 0, 0, 0, 0>>, <<1, 1, 0, 0, 1, 5, 0>>, <<0, 1, 0, 1, 0, 0>>,
             <<0, 1, 0, 0, 0, 0>>, <<0, 1, 0, 0, 1, 7, 0, 9, 9>>,
             <<0, 1, 0, 0, 3, 1, 2>>, <<0, 1, 0, 0, 1, 7>>, <<0, 1, 0, 0, 200, 7, 0>>,
             <<0, 1, 0, 0, 1, 7, 20, 1, 2, 3>>, <<0, 1, 0, 0, 0, 20>> \o Zeros(19),
             <<0, 1, 0, 0, 1, 7, 5, 1, 2, 3, 4, 5>>, <<0, 1, 0, 0, 0, 21>> \o Zeros(21),
             <<0, 1, 0, 0, 1, 1, 19>> \o Zeros(19), <<0, 1, 0, 0, 2, 1, 68, 20>> \o Addr(9),
             <<0, 1, 0, 0, 33>> \o [i \in 1..33 |-> 255] \o <<20>> \o Addr(9),
             <<0, 1, 0, 0, 33>> \o [i \in 1..33 |-> 255] \o <<5, 1, 2, 3, 4, 5>>}
        AddressArgs ==
            {[kind |-> "with_address", chain_id |-> c, address |-> a, data |-> <<>>] :
                c \in ChainIdSamples, a \in AddressSamples}
            \cup {[kind |-> "chain_only", chain_id |-> c, address |-> <<>>, data |-> <<>>] :
                    c \in ChainIdSamples}
            \cup {[kind |-> "address_only", chain_id |-> U256_ZERO, address |-> a, data |-> <<>>] :
                    a \in AddressSamples}
            \cup {[kind |-> "bytes", chain_id |-> U256_ZERO, address |-> <<>>, data |-> b] :
                    b \in BufferSamples}
       IN  args \in AddressArgs

EncodeWithAddress ==
    /\ cmd = "erc7930" /\ pc = "start" /\ args.kind = "with_address"
    /\ evm_bytes' = encode_evm_v1_with_address(args.chain_id, args.address)
    /\ pc' = "encoded"
    /\ UNCHANGED <<evm_decoded, result>>
    /\ UNCHANGED <<cmd, args, status_stream, elapsed, finalized, log_proof, source_chain_id,
                   root_available, bundle_status, bundle, encoded_bundle, proof,
                   handler_calls, handler_receipt, stdout, polls, sleeps, stage_log,
                   last_rpc, bundle_hash>>

EncodeChainOnly ==
    /\ cmd = "erc7930" /\ pc = "start" /\ args.kind = "chain_only"
    /\ evm_bytes' = encode_evm_v1_chain_only(args.chain_id)
    /\ pc' = "encoded"
    /\ UNCHANGED <<evm_decoded, result>>
    /\ UNCHANGED <<cmd, args, status_stream, elapsed, finalized, log_proof, source_chain_id,
                   root_available, bundle_status, bundle, encoded_bundle, proof,
                   handler_calls, handler_receipt, stdout, polls, sleeps, stage_log,
                   last_rpc, bundle_hash>>

EncodeAddressOnly ==
    /\ cmd = "erc7930" /\ pc = "start" /\ args.kind = "address_only"
    /\ evm_bytes' = encode_evm_v1_address_only(args.address)
    /\ pc' = "encoded"
    /\ UNCHANGED <<evm_decoded, result>>
    /\ UNCHANGED <<cmd, args, status_stream, elapsed, finalized, log_proof, source_chain_id,
                   root_available, bundle_status, bundle, encoded_bundle, proof,
                   handler_calls, handler_receipt, stdout, polls, sleeps, stage_log,
                   last_rpc, bundle_hash>>

\* the address bytes arrive as they are
ReceiveBytes ==
    /\ cmd = "erc7930" /\ pc = "start" /\ args.kind = "bytes"
    /\ evm_bytes' = args.data
    /\ pc' = "encoded"
    /\ UNCHANGED <<evm_decoded, result>>
    /\ UNCHANGED <<cmd, args, status_stream, elapsed, finalized, log_proof, source_chain_id,
                   root_available, bundle_status, bundle, encoded_bundle, proof,
                   handler_calls, handler_receipt, stdout, polls, sleeps, stage_log,
                   last_rpc, bundle_hash>>

\* decode_evm_v1_address of the bytes
DecodeAddress ==
    /\ cmd = "erc7930" /\ pc = "encoded"
    /\ LET decoded == decode_evm_v1_address(evm_bytes)
       IN  /\ evm_decoded' = SomeV(decoded)
           /\ result' = IF decoded.panic THEN Panicked
                        ELSE IF decoded.ok THEN Success
                        ELSE Failure(decoded.err, <<>>)
    /\ pc' = "decoded"
    /\ evm_bytes' = evm_bytes
    /\ UNCHANGED <<cmd, args, status_stream, elapsed, finalized, log_proof, source_chain_id,
                   root_available, bundle_status, bundle, encoded_bundle, proof,
                   handler_calls, handler_receipt, stdout, polls, sleeps, stage_log,
                   last_rpc, bundle_hash>>

NextAddress ==
    \/ EncodeWithAddress
    \/ EncodeChainOnly
    \/ EncodeAddressOnly
    \/ ReceiveBytes
    \/ DecodeAddress

SpecAddress == InitAddress /\ [][NextAddress]_vars

(***************************************************************************)
(* The attributes of `send message`, `send bundle` and `encode attrs`.     *)
(* The runs set neither --interop-value nor --indirect; the calldata is    *)
(* kept as the function called and the attribute list it carries.          *)
(***************************************************************************)
\* parse_permissionless_address: Result<Option<Address>>
parse_permissionless_address(value) ==
    IF value = <<"p", "e", "r", "m", "i", "s", "s", "i", "o", "n", "l", "e", "s", "s">>
    THEN Ok(NoneV)
    ELSE IF AddressFromStr(value).ok THEN Ok(SomeV(AddressFromStr(value).val))
    ELSE Err("invalid address")

\* executionAddressCall { _executionAddress: value }.abi_encode()
encode_execution_address(value) == <<5, 76, 3, 27>> \o Word(32) \o EncBytes(value)

\* unbundlerAddressCall { _unbundlerAddress: value }.abi_encode()
encode_unbundler_address(value) == <<185, 200, 102, 152>> \o Word(32) \o EncBytes(value)

\* a variant that takes a permissionless unbundler as it takes a permissionless
\* execution address
build_bundle_attributes_permissive(args_, dest_chain_id) ==
    LET unbundler == parse_permissionless_address(args_.unbundler.v)
    IN  IF ~args_.unbundler.some THEN Ok(<<>>)
        ELSE IF ~unbundler.ok THEN Err(unbundler.err)
        ELSE Ok(<<encode_unbundler_address(
                    IF unbundler.val.some
                    THEN encode_evm_v1_with_address(dest_chain_id, unbundler.val.v)
                    ELSE <<>>)>>)

\* build_message_attributes: Result<Vec<Bytes>>
build_message_attributes(args_, dest_chain_id) ==
    LET execution == parse_permissionless_address(args_.execution_address.v)
        first == IF ~args_.execution_address.some THEN <<>>
                 ELSE <<encode_execution_address(
                            IF execution.val.some
                            THEN encode_evm_v1_with_address(dest_chain_id, execution.val.v)
                            ELSE <<>>)>>
    IN  IF args_.execution_address.some /\ ~execution.ok THEN Err(execution.err)
        ELSE IF ~args_.unbundler.some THEN Ok(first)
        ELSE IF args_.unbundler.v
                    = <<"p", "e", "r", "m", "i", "s", "s", "i", "o", "n", "l", "e", "s", "s">>
        THEN Err("unbundler cannot be permissionless")
        ELSE IF ~AddressFromStr(args_.unbundler.v).ok THEN Err("invalid address")
        ELSE Ok(first \o <<encode_unbundler_address(
                                encode_evm_v1_with_address(
                                    dest_chain_id, AddressFromStr(args_.unbundler.v).val))>>)

\* build_bundle_attributes: Result<Vec<Bytes>>
build_bundle_attributes(args_, dest_chain_id) ==
    LET execution == parse_permissionless_address(args_.execution_address.v)
        first == IF ~args_.execution_address.some THEN <<>>
                 ELSE <<encode_execution_address(
                            IF execution.val.some
                            THEN encode_evm_v1_with_address(dest_chain_id, execution.val.v)
                            ELSE <<>>)>>
    IN  IF args_.execution_address.some /\ ~execution.ok THEN Err(execution.err)
        ELSE IF ~args_.unbundler.some THEN Ok(first)
        ELSE IF args_.unbundler.v
                    = <<"p", "e", "r", "m", "i", "s", "s", "i", "o", "n", "l", "e", "s", "s">>
        THEN Err("bundle unbundler cannot be permissionless")
        ELSE IF ~AddressFromStr(args_.unbundler.v).ok THEN Err("invalid address")
        ELSE Ok(first \o <<encode_unbundler_address(
                                encode_evm_v1_with_address(
                                    dest_chain_id, AddressFromStr(args_.unbundler.v).val))>>)

InitAttrs ==
    /\ InitCommon
    /\ status_stream = <<>>
    /\ cmd \in {"send message", "send bundle", "encode attrs"}
    /\ LET
        permissionless == <<"p", "e", "r", "m", "i", "s", "s", "i", "o", "n", "l", "e", "s", "s">>
        \* --unbundler: absent, an address with and without 0x, permissionless,
        \* a word that is no hex, hex of 2 bytes
        Unbundlers ==
            {NoneV, SomeV(format_hex(Addr(9))), SomeV(HexEncode(Addr(5))),
             SomeV(permissionless), SomeV(Str_abc), SomeV(format_hex(<<1, 2>>))}
        \* --execution-address: absent, permissionless, an address, a word that is no hex
        ExecutionAddresses ==
            {NoneV, SomeV(permissionless), SomeV(format_hex(Addr(7))), SomeV(Str_abc)}
       IN  args \in {[dry_run |-> d, has_signer |-> k, chain_id |-> U256From(c),
                      execution_address |-> e, unbundler |-> u] :
                        d \in BOOLEAN, k \in BOOLEAN, c \in {1, 324},
                        e \in ExecutionAddresses, u \in Unbundlers}
    /\ (cmd = "encode attrs") => (~args.dry_run /\ ~args.has_signer)

\* run_message and run_bundle after the attributes are built: the calldata, the
\* eth_call of a dry run, or the signer check and the transaction
SendRun(command, function, attributes) ==
    /\ cmd = command /\ pc = "start"
    /\ \E call \in {Err(<<"r", "e", "f", "u", "s", "e", "d">>), Ok(B256(7))},
          chain \in ChainIdResponses, receipt \in BOOLEAN :
        LET calldata == [function |-> function, attributes |-> attributes.val]
            required == require_signer_or_dry_run(args.has_signer, args.dry_run, command)
        IN  IF ~attributes.ok
            THEN /\ Fail(attributes.err, <<>>)
                 /\ UNCHANGED <<handler_calls, stdout, last_rpc>>
            ELSE IF args.dry_run
            THEN /\ handler_calls' = Append(handler_calls, HandlerCall("eth_call", calldata))
                 /\ last_rpc' = [method |-> "eth_call", stage |-> "call", params |-> <<>>,
                                 resp |-> call]
                 /\ IF call.ok
                    THEN /\ Println("dry-run", format_hex(call.val))
                         /\ pc' = "done" /\ result' = Success
                    ELSE Fail("", eth_call_error(call.err)) /\ stdout' = stdout
            ELSE IF ~required.ok
            THEN /\ Fail(required.err, <<>>)
                 /\ UNCHANGED <<handler_calls, stdout, last_rpc>>
            ELSE IF ~chain.ok
            THEN /\ Fail(chain.err, <<>>)
                 /\ UNCHANGED <<handler_calls, stdout, last_rpc>>
            ELSE /\ last_rpc' = [method |-> "eth_sendRawTransaction", stage |-> "call",
                                 params |-> <<>>, resp |-> call]
                 /\ IF ~call.ok
                    THEN Fail("", call.err) /\ UNCHANGED <<handler_calls, stdout>>
                    ELSE /\ handler_calls' =
                                Append(handler_calls, HandlerCall("send_transaction", calldata))
                         /\ IF receipt
                            THEN /\ Println("tx hash", format_hex(call.val))
                                 /\ pc' = "done" /\ result' = Success
                            ELSE Fail("rpc request failed", <<>>) /\ stdout' = stdout
    /\ UNCHANGED <<evm_bytes, evm_decoded, bundle_hash, cmd, args, status_stream,
                   source_chain_id, elapsed, finalized, log_proof, root_available,
                   bundle_status, bundle, encoded_bundle, proof, handler_receipt, polls,
                   sleeps, stage_log>>

run_message ==
    SendRun("send message", "sendMessage", build_message_attributes(args, args.chain_id))

run_bundle ==
    SendRun("send bundle", "sendBundle", build_bundle_attributes(args, args.chain_id))

\* run_attrs: the attributes, then one line of hex for each
run_attrs ==
    /\ cmd = "encode attrs" /\ pc = "start"
    /\ LET execution == parse_permissionless_address(args.execution_address.v)
           first == IF ~args.execution_address.some THEN <<>>
                    ELSE <<encode_execution_address(
                               IF execution.val.some
                               THEN encode_evm_v1_address_only(execution.val.v)
                               ELSE <<>>)>>
           unbundler == AddressFromStr(args.unbundler.v)
           attributes == IF ~args.unbundler.some THEN first
                         ELSE first \o <<encode_unbundler_address(
                                            encode_evm_v1_address_only(unbundler.val))>>
       IN  IF args.execution_address.some /\ ~execution.ok
           THEN Fail(execution.err, <<>>) /\ stdout' = stdout
           ELSE IF args.unbundler.some /\ ~unbundler.ok
           THEN Fail("invalid address", <<>>) /\ stdout' = stdout
           ELSE /\ stdout' = stdout \o [i \in 1..Len(attributes) |->
                                          [line |-> "{value}",
                                           detail |-> format_hex(attributes[i])]]
                /\ pc' = "done" /\ result' = Success
    /\ UNCHANGED <<evm_bytes, evm_decoded, bundle_hash, cmd, args, status_stream,
                   source_chain_id, elapsed, finalized, log_proof, root_available,
                   bundle_status, bundle, encoded_bundle, proof, handler_calls,
                   handler_receipt, polls, sleeps, stage_log, last_rpc>>

NextAttrs ==
    \/ run_message
    \/ run_bundle
    \/ run_attrs

SpecAttrs == InitAttrs /\ [][NextAttrs]_vars

(***************************************************************************)
(* Properties                                                              *)
(***************************************************************************)
\* C1: a relay run completes its stages in the order finalization, proof, root,
\* handler call; the handler is called only after the root wait succeeded, the
\* root is polled only after a proof was obtained, the proof only after
\* finalization was observed, and the run is never again inside a stage it has
\* completed.
C1_StageOrder ==
    cmd = "relay" =>
        LET order == <<"Finalized", "ProofObtained", "RootPropagated", "Submitted">>
            completed(st) == \E i \in 1..Len(stage_log) : stage_log[i] = st
        IN  /\ Len(stage_log) <= 4
            /\ \A i \in 1..Len(stage_log) : stage_log[i] = order[i]
            /\ (handler_calls # <<>> \/ pc \in {"call", "finish", "done"})
                    => completed("RootPropagated")
            /\ (polls["root"] > 0 \/ pc \in {"wait_root", "sleep_root"})
                    => completed("ProofObtained") /\ log_proof.some
            /\ (polls["proof"] > 0 \/ pc \in {"wait_proof", "sleep_proof"})
                    => completed("Finalized")
            /\ completed("Finalized") => pc \notin {"wait_finalized", "sleep_finalized"}
            /\ completed("ProofObtained") => pc \notin {"wait_proof", "sleep_proof"}
            /\ completed("RootPropagated") => pc \notin {"wait_root", "sleep_root"}
            /\ completed("Submitted") => pc \notin {"call"}

\* a relay run that slept in the proof wait and went through all four stages
C1_Witness ==
    /\ cmd = "relay" /\ pc = "done" /\ result.status = "ok"
    /\ stage_log = <<"Finalized", "ProofObtained", "RootPropagated", "Submitted">>
    /\ sleeps["proof"] > 0 /\ polls["root"] > 0
    /\ Len(handler_calls) = 1

\* C2: in wait_for_root and in debug root, once a poll has returned a non-zero root
\* that differs from the expected one the command has failed with the
\* root-mismatch error: it is neither sleeping nor about to poll again, and no
\* handler call was or will be made.
C2_RootMismatchFailsAtOnce ==
    (/\ cmd \in {"relay", "debug root"}
     /\ last_rpc.stage = "root"
     /\ last_rpc.resp.ok
     /\ last_rpc.resp.val # B256(0)
     /\ last_rpc.resp.val #
            (IF cmd = "relay" THEN B256FromStr(log_proof.v.root).val
             ELSE B256FromStr(args.expected_root).val))
        => /\ pc = "failed"
           /\ result.status = "err"
           /\ result.msg = "interop root mismatch"
           /\ handler_calls = <<>>

\* the first root poll of a relay run with the longest timeout returned another root
C2_Witness ==
    /\ cmd = "relay" /\ args.timeout = MaxTimeout
    /\ polls["root"] = 1 /\ sleeps["root"] = 0
    /\ last_rpc.stage = "root" /\ last_rpc.resp.ok /\ last_rpc.resp.val = B256(6)
    /\ result.msg = "interop root mismatch"

\* C3 as the specification states it: a wait of relay or debug root that ends
\* in an error ends by its deadline or, in the root wait, by a root mismatch;
\* the failure of one poll's RPC call does not end it.
C3_PollFailureSwallowed ==
    (/\ cmd \in {"relay", "debug root"}
     /\ pc = "failed"
     /\ \/ last_rpc.stage = "finalized"
        \/ last_rpc.stage = "proof" /\ ~log_proof.some
        \/ last_rpc.stage = "root"
                /\ \A i \in 1..Len(stage_log) : stage_log[i] # "RootPropagated")
        => result.msg \in {"block was not finalized in time",
                           "log proof not available in time",
                           "interop root did not become available in time",
                           "interop root mismatch"}

\* C4 as the specification states it: when wait_for_finalized_block has returned
\* success, its last poll reported a finalized block number at or above the
\* block of the transaction.
C4_SuccessOnlyAfterReport ==
    (/\ cmd = "relay"
     /\ last_rpc.stage = "finalized"
     /\ stage_log = <<"Finalized">>)
        => last_rpc.resp.ok /\ last_rpc.resp.val >= args.receipt.block_number

\* C5: in every verifyBundle/executeBundle call that bundle verify, bundle
\* execute or relay simulates or sends, the proof's message.sender is the
\* interop center of the run and its message.data is the byte 0x01 followed by
\* the bundle bytes passed as the call's first argument.
C5_ProofCarriesCenterAndBundle ==
    cmd \in {"relay", "bundle verify", "bundle execute"} =>
        \A i \in 1..Len(handler_calls) :
            /\ handler_calls[i].calldata._proof.message.sender = args.center
            /\ handler_calls[i].calldata._proof.message.data
                    = <<1>> \o handler_calls[i].calldata._bundle
            /\ handler_calls[i].calldata._bundle = encoded_bundle

\* bundle verify called the handler with a proof file that carried another
\* sender and other data
C5_Witness ==
    /\ cmd = "bundle verify"
    /\ Len(handler_calls) = 1
    /\ args.center = Addr(171)
    /\ args.proof.message.sender = format_hex(Addr(99))
    /\ args.proof.message.data = <<"0", "x", "f", "f">>
    /\ encoded_bundle = <<222, 173>>

\* C6: for every bundle a source chain emitted, bundle extract decodes the
\* emitted bundle itself, calls in order; decoding the bytes it then encodes gives
\* that bundle again, re-encoding gives the same bytes, and those bytes are the
\* bundle bytes the event carries.
C6_RoundTrip ==
    (cmd = "bundle extract" /\ pc = "done") =>
        /\ bundle.v = args.emitted.v
        /\ decode_interop_bundle(encoded_bundle).ok
        /\ decode_interop_bundle(encoded_bundle).val = args.emitted.v
        /\ encode_interop_bundle(decode_interop_bundle(encoded_bundle).val) = encoded_bundle
        /\ SubSeq(encoded_bundle, 33, Len(encoded_bundle))
                = SubSeq(args.receipt.event_data.v, 97, Len(args.receipt.event_data.v))

\* a bundle of two different calls, with an execution address, went through
C6_Witness ==
    /\ cmd = "bundle extract" /\ pc = "done"
    /\ Len(args.emitted.v.calls) = 2
    /\ args.emitted.v.calls[1].data = <<171>>
    /\ Len(args.emitted.v.calls[2].data) = 33
    /\ args.emitted.v.calls[1].shadowAccount /\ ~args.emitted.v.calls[2].shadowAccount
    /\ args.emitted.v.bundleAttributes.executionAddress # <<>>

\* C7 as the specification states it: when a handler call of relay, bundle verify
\* or bundle execute failed with BundleVerifiedAlready revert data, a line printed
\* or the error returned contains "revert: BundleVerifiedAlready".
C7_KnownRevertNamed ==
    (/\ cmd \in {"relay", "bundle verify", "bundle execute"}
     /\ last_rpc.stage = "call"
     /\ ~last_rpc.resp.ok
     /\ last_rpc.resp.err = RevertMessage(<<164, 61, 41, 83>> \o B256(2)))
        => LET name == Str_revert \o SelectorName(<<164, 61, 41, 83>>).v
           IN  \/ Contains(result.detail, name)
               \/ \E i \in 1..Len(stdout) : Contains(stdout[i].detail, name)

\* C8 as the specification states it: a run that sent the transaction and
\* returned Ok has the transaction's receipt.
C8_ReceiptAwaited ==
    (/\ cmd \in {"relay", "bundle verify", "bundle execute"}
     /\ ~args.dry_run
     /\ result.status = "ok"
     /\ handler_calls # <<>>)
        => handler_receipt.some

C11_WatchRootMismatchFails ==
    (/\ cmd = "watch"
     /\ last_rpc.stage = "root"
     /\ last_rpc.resp.ok
     /\ log_proof.some
     /\ B256FromStr(log_proof.v.root).ok
     /\ last_rpc.resp.val # B256(0)
     /\ last_rpc.resp.val # B256FromStr(log_proof.v.root).val)
        => /\ pc = "failed"
           /\ result.status = "err"
           /\ result.msg = "interop root mismatch"

\* C12 as the specification states it: a watch whose last status read is terminal
\* (FullyExecuted or Unbundled) does not go to sleep for another poll.
C12_StopsAtTerminalStatus ==
    (/\ cmd = "watch"
     /\ bundle_status.some
     /\ bundle_status.v \in {2, 3})
        => pc # "watch_sleep"

\* C13 as the specification states it: the timeout error of a relay or watch run
\* names the wait that stalled, the first of finalization, proof, root and status
\* that had not completed when the deadline passed.
C13_TimeoutNamesStage ==
    LET completed(st) == \E i \in 1..Len(stage_log) : stage_log[i] = st
        stalled == IF ~completed("Finalized") THEN "finalized"
                   ELSE IF ~completed("ProofObtained") THEN "proof"
                   ELSE IF ~completed("RootPropagated") THEN "root"
                   ELSE "status"
        timeout_error == [finalized |-> "block was not finalized in time",
                          proof |-> "log proof not available in time",
                          root |-> "interop root did not become available in time",
                          status |-> "watch timeout reached"]
    IN  (/\ cmd \in {"relay", "watch"}
         /\ pc = "failed"
         /\ result.status = "err"
         /\ \E st \in Stages : result.msg = timeout_error[st])
            => result.msg = timeout_error[stalled]

C15_ImmediatePath ==
    /\ [][cmd = "relay" =>
            /\ (/\ pc = "wait_finalized" /\ polls["finalized"] = 0
                /\ last_rpc'.resp.ok
                /\ last_rpc'.resp.val >= args.receipt.block_number)
                    => /\ pc' = "wait_proof"
                       /\ polls'["finalized"] = 1
                       /\ sleeps' = sleeps
            /\ (/\ pc = "wait_proof" /\ polls["proof"] = 0
                /\ last_rpc'.resp.ok
                /\ last_rpc'.resp.val.some)
                    => /\ pc' = "chain_id"
                       /\ polls'["proof"] = 1
                       /\ sleeps' = sleeps
            /\ (/\ pc = "wait_root" /\ polls["root"] = 0
                /\ last_rpc'.resp.ok
                /\ last_rpc'.resp.val # B256(0)
                /\ last_rpc'.resp.val = B256FromStr(log_proof.v.root).val)
                    => /\ pc' = "call"
                       /\ polls'["root"] = 1
                       /\ sleeps' = sleeps]_vars
    /\ [](cmd = "relay" =>
            \A st \in {"finalized", "proof", "root"} : sleeps[st] = 0 => polls[st] <= 1)

\* a relay run of a transaction in block MaxBlock is at the handler call after
\* one poll of each wait and no sleep
C15_Witness ==
    /\ cmd = "relay" /\ pc = "call"
    /\ args.receipt.block_number = MaxBlock
    /\ \A st \in {"finalized", "proof", "root"} : polls[st] = 1 /\ sleeps[st] = 0

\* C16: a relay run that has not reached its verify/execute call has sent no
\* transaction and simulated no call, holds no handler receipt, and the last
\* request it made is one of the read-only queries; and what it derived is a
\* function of what the chains returned: the bundle, its bytes and its hash of
\* the receipt's event, the proof of the log proof, the chain id and the receipt.
C16_ReadOnlyBeforeSubmit ==
    cmd = "relay" =>
        LET submitted == \E i \in 1..Len(stage_log) : stage_log[i] = "Submitted"
            event == decode_interop_bundle_sent(args.receipt.event_data.v)
        IN  /\ ~submitted =>
                /\ handler_calls = <<>>
                /\ ~handler_receipt.some
                /\ last_rpc.method \in {"", "eth_getBlockByNumber", "zks_getL2ToL1LogProof",
                                        "interopRoots"}
            /\ bundle.some =>
                /\ event.ok
                /\ bundle.v = event.val.interopBundle
                /\ bundle_hash = SomeV(event.val.interopBundleHash)
                /\ encoded_bundle = encode_interop_bundle(event.val.interopBundle)
            /\ proof.some =>
                proof.v = [chain_id |-> ToDecimal(source_chain_id),
                           l1_batch_number |-> log_proof.v.batch_number,
                           l2_message_index |-> log_proof.v.id,
                           root |-> log_proof.v.root,
                           message |->
                               [tx_number_in_batch |-> args.receipt.transaction_index,
                                sender |-> format_hex(args.center),
                                data |-> <<"0", "x", "0", "1">> \o HexEncode(encoded_bundle)],
                           proof |-> log_proof.v.proof]

\* a relay run went through finalization and proof and stopped in the root wait
\* by its deadline
C16_Witness ==
    /\ cmd = "relay" /\ pc = "failed"
    /\ result.msg = "interop root did not become available in time"
    /\ stage_log = <<"Finalized", "ProofObtained">>
    /\ bundle.some /\ log_proof.some
    /\ handler_calls = <<>>

\* C17: in relay, bundle verify and bundle execute a transaction was sent only
\* by a run that has a signer and no --dry-run; a run with --dry-run made
\* nothing but eth_call simulations; and a run with neither a signer nor
\* --dry-run failed at its first step with "<cmd> requires a signer or
\* --dry-run", before any request to the handler.
C17_SendNeedsSignerNoDryRun ==
    cmd \in {"relay", "bundle verify", "bundle execute"} =>
        /\ \A i \in 1..Len(handler_calls) :
            /\ handler_calls[i].kind = "send_transaction"
                    => args.has_signer /\ ~args.dry_run
            /\ args.dry_run => handler_calls[i].kind = "eth_call"
        /\ last_rpc.method = "eth_sendRawTransaction" => args.has_signer /\ ~args.dry_run
        /\ (~args.has_signer /\ ~args.dry_run /\ pc # "start") =>
            /\ pc = "failed"
            /\ result = Failure(cmd \o " requires a signer or --dry-run", <<>>)
            /\ handler_calls = <<>>
            /\ last_rpc = NoRpc

\* bundle execute with a signer and --dry-run simulated the call and returned
C17_Witness ==
    /\ cmd = "bundle execute" /\ pc = "done"
    /\ args.has_signer /\ args.dry_run
    /\ Len(handler_calls) = 1
    /\ handler_calls[1].kind = "eth_call"

\* C18: decoding what encode_evm_v1_with_address wrote for a chain id and an
\* address gives that chain id and Some of that address; decoding what
\* encode_evm_v1_chain_only wrote gives the chain id and None; decoding what
\* encode_evm_v1_address_only wrote gives chain id 0 and Some of the address.
C18_AddressRoundTrip ==
    (cmd = "erc7930" /\ pc = "decoded" /\ args.kind # "bytes") =>
        /\ ~evm_decoded.v.panic
        /\ evm_decoded.v.ok
        /\ evm_decoded.v.val =
            CASE args.kind = "with_address" ->
                    [chain_id |-> args.chain_id, address |-> SomeV(args.address)]
              [] args.kind = "chain_only" ->
                    [chain_id |-> args.chain_id, address |-> NoneV]
              [] OTHER ->
                    [chain_id |-> U256_ZERO, address |-> SomeV(args.address)]

\* the chain id 2^256 - 1 went through encode_evm_v1_with_address and back
C18_Witness ==
    /\ cmd = "erc7930" /\ pc = "decoded"
    /\ args.kind = "with_address"
    /\ args.chain_id = [k \in 1..16 |-> 65535]
    /\ args.address = Addr(9)
    /\ Len(evm_bytes) = 58

\* C19 as the specification states it: decode_evm_v1_address returns an error, and
\* neither a value nor a panic, for bytes shorter than 6, bytes that do not start
\* with 00 01 00 00, bytes whose chain reference or address runs past their end,
\* and bytes whose address length is neither 0 nor 20.
C19_MalformedAddressIsError ==
    (cmd = "erc7930" /\ pc = "decoded") =>
        LET b == evm_bytes
            too_short == Len(b) < 6
            bad_header == ~too_short /\ SubSeq(b, 1, 4) # EVM_V1_HEADER
            chain_end == 5 + b[5]
            chain_past == ~too_short /\ Len(b) < chain_end + 1
            addr_len == b[chain_end + 1]
            addr_past == ~too_short /\ ~chain_past /\ Len(b) < chain_end + 1 + addr_len
            bad_addr_len == ~too_short /\ ~chain_past /\ addr_len \notin {0, 20}
        IN  (too_short \/ bad_header \/ chain_past \/ addr_past \/ bad_addr_len)
                => ~evm_decoded.v.panic /\ ~evm_decoded.v.ok

\* C20: the bytes encode_evm_v1_with_address and encode_evm_v1_chain_only write
\* are the header, a length byte n, a chain reference of n bytes and the address
\* part; n is 1 to 32, the reference is the single byte 0 for chain id 0 and
\* starts with a non-zero byte otherwise, and read big-endian it is the chain id.
C20_MinimalChainReference ==
    (cmd = "erc7930" /\ pc \in {"encoded", "decoded"}
        /\ args.kind \in {"with_address", "chain_only"}) =>
        LET n == evm_bytes[5]
            ref == SubSeq(evm_bytes, 6, 5 + n)
            padded == Zeros(32 - n) \o ref
            rest == SubSeq(evm_bytes, 6 + n, Len(evm_bytes))
        IN  /\ SubSeq(evm_bytes, 1, 4) = EVM_V1_HEADER
            /\ n >= 1 /\ n <= 32
            /\ Len(evm_bytes) >= 6 + n
            /\ Len(ref) = n
            /\ rest = (IF args.kind = "chain_only" THEN <<0>> ELSE <<20>> \o args.address)
            /\ (args.chain_id = U256_ZERO) => ref = <<0>>
            /\ (args.chain_id # U256_ZERO) => ref[1] # 0
            /\ \A k \in 1..16 :
                args.chain_id[k] = padded[33 - 2 * k] * 256 + padded[34 - 2 * k]

\* chain id 0 and a chain id of 31 significant bytes were encoded
C20_Witness ==
    /\ cmd = "erc7930" /\ pc = "encoded"
    /\ args.kind = "chain_only"
    /\ \/ args.chain_id = U256_ZERO /\ evm_bytes = <<0, 1, 0, 0, 1, 0, 0>>
       \/ args.chain_id[16] = 255 /\ evm_bytes[5] = 31

\* C21 as the specification states it: the label reported for a bundle status
\* is Unreceived, Verified, FullyExecuted or Unbundled for the on-chain values
\* 0, 1, 2 and 3 and Unknown for every other value the handler returns, the
\* values of 256 and above among them.
C21_StatusLabelOfOnChainValue ==
    (/\ cmd = "watch" /\ pc = "watch_until"
     /\ last_rpc.method = "bundleStatus" /\ last_rpc.resp.ok
     /\ Len(last_rpc.resp.val) = 32
     /\ stdout # <<>> /\ stdout[Len(stdout)].line = "bundle_status") =>
        LET value == WordToNat(last_rpc.resp.val)
        IN  stdout[Len(stdout)].detail =
                CASE value = 0 -> "Unreceived"
                  [] value = 1 -> "Verified"
                  [] value = 2 -> "FullyExecuted"
                  [] value = 3 -> "Unbundled"
                  [] OTHER -> "Unknown"

\* C22: decode_revert_reason classifies revert data by its first 4 bytes. A dry
\* run of relay, and a submission of bundle verify or bundle execute, that failed
\* with Error("Foo") reports the reason Foo, with Panic(1) or Panic(17) the reason
\* panic(1) or panic(17), with the selector of a custom error of the table the
\* reason "revert: <Name>", and with revert data of 3 bytes or of an unregistered
\* selector no reason: the transport error is reported as it is.
C22_RevertReasonBySelector ==
    (/\ cmd \in {"relay", "bundle verify", "bundle execute"}
     /\ (cmd = "relay") = args.dry_run
     /\ last_rpc.stage = "call" /\ ~last_rpc.resp.ok) =>
        LET err == last_rpc.resp.err
            reverted == IF cmd = "relay" THEN Str_dry_run_reverted
                        ELSE Str_submission_reverted
            failed == IF cmd = "relay" THEN Str_dry_run_failed ELSE Str_submission_failed
            reported(text) ==
                IF cmd = "relay" THEN \E i \in 1..Len(stdout) : stdout[i].detail = text
                ELSE result.status = "err" /\ result.detail = text
        IN  /\ err = RevertMessage(<<8, 195, 121, 160>> \o Word(32) \o EncBytes(<<70, 111, 111>>))
                => reported(reverted \o <<"F", "o", "o">>)
            /\ err = RevertMessage(<<78, 72, 123, 113>> \o Word(1))
                => reported(reverted \o <<"p", "a", "n", "i", "c", "(", "1", ")">>)
            /\ err = RevertMessage(<<78, 72, 123, 113>> \o Word(17))
                => reported(reverted \o <<"p", "a", "n", "i", "c", "(", "1", "7", ")">>)
            /\ \A k \in 1..Len(error_selector_map) :
                err \in {RevertMessage(error_selector_map[k].selector \o B256(2)),
                         RevertMessage(error_selector_map[k].selector \o B256(2) \o Word(0))}
                    => reported(reverted \o <<"r", "e", "v", "e", "r", "t", ":", " ">>
                                    \o error_selector_map[k].name)
            /\ err \in {RevertMessage(<<222, 173, 190, 239>>), RevertMessage(<<8, 195, 121>>)}
                => reported(failed \o err)

\* a dry run of relay reported Error("Foo"), and a submission of a bundle
\* command a custom error
C22_Witness ==
    \/ /\ cmd = "relay" /\ args.dry_run /\ pc = "done"
       /\ last_rpc.resp.err
            = RevertMessage(<<8, 195, 121, 160>> \o Word(32) \o EncBytes(<<70, 111, 111>>))
       /\ \E i \in 1..Len(stdout) :
            stdout[i].detail = Str_dry_run_reverted \o <<"F", "o", "o">>
    \/ /\ cmd = "bundle verify" /\ ~args.dry_run /\ pc = "failed"
       /\ last_rpc.stage = "call"
       /\ last_rpc.resp.err = RevertMessage(<<164, 61, 41, 83>> \o B256(2))
       /\ Contains(result.detail, <<"B", "u", "n", "d", "l", "e", "V", "e", "r", "i", "f">>)

\* C23 as the specification states it: decode_revert_reason is total. Whatever
\* error message a failed handler call carries, Error or Panic revert data that
\* is cut short or over-long included, the command that decodes it gets a reason
\* or none and does not panic.
C23_RevertDecoderTotal ==
    (/\ cmd \in {"relay", "bundle verify", "bundle execute"}
     /\ (cmd = "relay") => args.dry_run
     /\ last_rpc.stage = "call" /\ ~last_rpc.resp.ok) =>
        result.status # "panic"

\* C24: every unbundlerAddress attribute that `send message` and `send bundle`
\* put into calldata and that `encode attrs` prints wraps a non-empty
\* interoperable address with a 20-byte address in it; with an unbundler given
\* as "permissionless", or as anything that is no address, the command fails and
\* has produced no calldata, no transaction and no output.
C24_UnbundlerIsConcrete ==
    (cmd \in {"send message", "send bundle", "encode attrs"}) =>
        LET selector == <<185, 200, 102, 152>>
            emitted ==
                UNION {{c.calldata.attributes[j] : j \in 1..Len(c.calldata.attributes)} :
                        c \in {handler_calls[i] : i \in 1..Len(handler_calls)}}
                \cup {HexDecode(StripPrefix0x(stdout[i].detail)).val :
                        i \in {k \in 1..Len(stdout) : stdout[k].line = "{value}"}}
            wrapped(a) == DecBytes(SubSeq(a, 5, Len(a)), NatAt(SubSeq(a, 5, Len(a)), 0))
            concrete(a) ==
                /\ wrapped(a).ok
                /\ wrapped(a).val # <<>>
                /\ LET decoded == decode_evm_v1_address(wrapped(a).val)
                   IN  /\ ~decoded.panic /\ decoded.ok
                       /\ decoded.val.address.some
                       /\ Len(decoded.val.address.v) = 20
            no_address == args.unbundler.some /\ ~AddressFromStr(args.unbundler.v).ok
        IN  /\ \A a \in emitted : SubSeq(a, 1, 4) = selector => concrete(a)
            /\ no_address => handler_calls = <<>> /\ stdout = <<>> /\ pc # "done"
            /\ (no_address /\ pc # "start"
                    /\ (args.execution_address.some
                            => parse_permissionless_address(args.execution_address.v).ok))
                => result.status = "err"
            /\ (pc = "done" /\ args.unbundler.some) =>
                    \E a \in emitted : SubSeq(a, 1, 4) = selector

\* each of the three commands emitted an unbundler attribute, or refused a
\* permissionless unbundler
C24_Witness ==
    /\ cmd \in {"send message", "send bundle", "encode attrs"}
    /\ \/ /\ pc = "done" /\ args.unbundler = SomeV(format_hex(Addr(9)))
          /\ cmd = "send bundle" /\ ~args.dry_run
          /\ Len(handler_calls) = 1 /\ handler_calls[1].kind = "send_transaction"
       \/ /\ pc = "failed" /\ cmd = "send message"
          /\ result.msg = "unbundler cannot be permissionless"

C26_WatchFlagsMoveForward ==
    /\ [][cmd = "watch" =>
            /\ finalized => finalized'
            /\ log_proof.some => log_proof' = log_proof
            /\ root_available => root_available'
            /\ (last_rpc' # last_rpc \/ polls' # polls) =>
                    /\ last_rpc'.stage = "finalized" => ~finalized
                    /\ last_rpc'.stage = "proof" => ~log_proof.some
                    /\ last_rpc'.stage = "root" => ~root_available]_vars
    /\ [](cmd = "watch" =>
            /\ \A name \in {"finalized", "log_proof", "root_available"} :
                Cardinality({i \in 1..Len(stdout) : stdout[i].line = name}) <= 1
            /\ finalized => pc # "watch_finalized"
            /\ log_proof.some => pc # "watch_log_proof"
            /\ root_available => pc # "watch_root")

\* a watch with all three flags set went through a sleep and polled the status again
C26_Witness ==
    /\ cmd = "watch"
    /\ finalized /\ log_proof.some /\ root_available
    /\ sleeps["status"] >= 1 /\ polls["status"] >= 2
    /\ Cardinality({i \in 1..Len(stdout) : stdout[i].line = "finalized"}) = 1
    /\ Cardinality({i \in 1..Len(stdout) : stdout[i].line = "root_available"}) = 1

\* C27 as the specification states it: in watch mode a log_proof event is never
\* printed before the finalized event, and a root_available event never before
\* the log_proof event.
C27_WatchEventOrder ==
    (cmd = "watch") =>
        \A i \in 1..Len(stdout) :
            /\ stdout[i].line = "log_proof"
                => \E j \in 1..(i - 1) : stdout[j].line = "finalized"
            /\ stdout[i].line = "root_available"
                => \E j \in 1..(i - 1) : stdout[j].line = "log_proof"

\* C28 as the specification states it: a watch started without --until never
\* returns success; it ends only with "watch timeout reached" or with an error of
\* a request or of decoding that it passes on.
C28_WatchWithoutUntilNeverSucceeds ==
    (cmd = "watch" /\ ~args.until.some) =>
        /\ result.status # "ok"
        /\ pc # "done"
        /\ pc = "failed" =>
            /\ result.status = "err"
            /\ result.msg \in {"watch timeout reached", "rpc request failed",
                               "transaction receipt not found",
                               "failed to decode InteropBundleSent",
                               "abi: buffer overrun"}

\* C29: relay waits for and submits the same batch: every interopRoots query
\* of the run asks for (chain id of the source chain, batch number of the log
\* proof it fetched), the wait ends well only on an answer equal to that log
\* proof's root, and the proof of every handler call carries that chain id as
\* chainId, that batch number as l1BatchNumber, the log proof's id as
\* l2MessageIndex and the log proof's siblings in their order.
C29_RelaySameBatch ==
    cmd = "relay" =>
        /\ last_rpc.method = "interopRoots" =>
                last_rpc.params = <<source_chain_id, log_proof.v.batch_number>>
        /\ (last_rpc.method = "interopRoots"
                /\ \E i \in 1..Len(stage_log) : stage_log[i] = "RootPropagated") =>
                /\ last_rpc.resp.ok
                /\ last_rpc.resp.val = B256FromStr(log_proof.v.root).val
        /\ \A i \in 1..Len(handler_calls) :
            LET p == handler_calls[i].calldata._proof
            IN  /\ p.chainId = source_chain_id
                /\ p.l1BatchNumber = log_proof.v.batch_number
                /\ p.l2MessageIndex = log_proof.v.id
                /\ Len(p.proof) = Len(log_proof.v.proof)
                /\ \A k \in 1..Len(p.proof) :
                        p.proof[k] = B256FromStr(log_proof.v.proof[k]).val

\* relay on source chain 270 saw the root of batch 9 and called the handler
\* with the two siblings of log proof 4
C29_Witness ==
    /\ cmd = "relay"
    /\ source_chain_id = 270
    /\ \E i \in 1..Len(stage_log) : stage_log[i] = "RootPropagated"
    /\ Len(handler_calls) >= 1
    /\ handler_calls[1].calldata._proof.l1BatchNumber = 9
    /\ handler_calls[1].calldata._proof.l2MessageIndex = 4
    /\ Len(handler_calls[1].calldata._proof.proof) = 2
    /\ handler_calls[1].calldata._proof.proof[1] # handler_calls[1].calldata._proof.proof[2]

\* C30: decode_evm_v1_address is total: for every byte buffer, also one that
\* declares a chain reference of more than 32 bytes, the decoder returns a
\* value or an error and never panics, so the command that called it ends with
\* a result.
C30_AddressDecoderTotal ==
    (cmd = "erc7930" /\ pc = "decoded") =>
        /\ ~evm_decoded.v.panic
        /\ evm_decoded.v.ok \/ evm_decoded.v.err # ""
        /\ result.status # "panic"

====
